---- MODULE Spec2Model ----
(***************************************************************************)
(* dependency-context: the vector store (chunker, embedder, file-backed    *)
(* store, ranker) and the search capability that wraps it.                 *)
(*                                                                         *)
(* Text is a sequence of one-character strings.  An embedding is a pair    *)
(* of integers giving a direction; cosine similarity is scale-invariant,   *)
(* so a score is kept exactly as a signed, reduced squared ratio.          *)
(***************************************************************************)
EXTENDS Integers, Sequences, FiniteSets, TLC

\* ------------------------------------------------------------------ text

NL == "\n"
SP == " "
HASH == "#"

IsSpace(c) == c \in {SP, NL}

Min(a, b) == IF a <= b THEN a ELSE b

\* String.prototype.trim: the text without leading and trailing whitespace.
RECURSIVE TrimStart(_)
TrimStart(s) ==
    IF s = << >> THEN s
    ELSE IF IsSpace(Head(s)) THEN TrimStart(Tail(s)) ELSE s

RECURSIVE TrimEnd(_)
TrimEnd(s) ==
    IF s = << >> THEN s
    ELSE IF IsSpace(s[Len(s)]) THEN TrimEnd(SubSeq(s, 1, Len(s) - 1)) ELSE s

\* trimStart in place of trim.
TrimStartOnly(s) == TrimStart(s)

Trim(s) == TrimEnd(TrimStart(s))

\* String.prototype.includes: sub occurs in s as a contiguous substring
\* (characters compared exactly, so the match is case-sensitive).
Includes(s, sub) ==
    \E i \in 0..(Len(s) - Len(sub)) : SubSeq(s, i + 1, i + Len(sub)) = sub

\* ---------------------------------------------------------------- chunker

\* Number of '#' characters starting at position p (1-based).
RECURSIVE HashRun(_, _)
HashRun(s, p) ==
    IF p <= Len(s) /\ s[p] = HASH THEN 1 + HashRun(s, p + 1) ELSE 0

\* First position >= p that holds no whitespace (Len(s) + 1 when none).
RECURSIVE SpaceEnd(_, _)
SpaceEnd(s, p) ==
    IF p <= Len(s) /\ IsSpace(s[p]) THEN SpaceEnd(s, p + 1) ELSE p

\* First position >= p that holds a newline (Len(s) + 1 when none).
RECURSIVE LineEnd(_, _)
LineEnd(s, p) ==
    IF p <= Len(s) /\ s[p] # NL THEN LineEnd(s, p + 1) ELSE p

\* /^#{1,6}\s+.+$/m tried at position p: 0 when it does not match there,
\* otherwise the position just after the match.  '^' needs a line start,
\* #{1,6} must be followed by whitespace, \s+ is greedy and gives characters
\* back until '.+' finds a character that is not a newline; '.+' then runs
\* to the end of that line.
HeaderMatchEnd(s, p) ==
    LET h  == HashRun(s, p)
        ws == p + h
        we == SpaceEnd(s, ws)
        starts == { q \in (ws + 1)..Min(we, Len(s)) : s[q] # NL }
    IN  IF ~(p = 1 \/ (p > 1 /\ p <= Len(s) + 1 /\ s[p - 1] = NL)) THEN 0
        ELSE IF h < 1 \/ h > 6 THEN 0
        ELSE IF we = ws THEN 0
        ELSE IF starts = {} THEN 0
        ELSE LineEnd(s, CHOOSE q \in starts : \A r \in starts : r <= q)

\* text.split(/^#{1,6}\s+.+$/m): the pieces of s between header lines,
\* scanning from position q with the current piece starting at p.
RECURSIVE HeaderSplitFrom(_, _, _)
HeaderSplitFrom(s, p, q) ==
    IF q > Len(s) THEN << SubSeq(s, p, Len(s)) >>
    ELSE LET e == HeaderMatchEnd(s, q)
         IN  IF e = 0 THEN HeaderSplitFrom(s, p, q + 1)
             ELSE << SubSeq(s, p, q - 1) >> \o HeaderSplitFrom(s, e, e)

HeaderSplit(s) == IF s = << >> THEN << << >> >> ELSE HeaderSplitFrom(s, 1, 1)

\* Number of newline characters starting at position p.
RECURSIVE NewlineRun(_, _)
NewlineRun(s, p) ==
    IF p <= Len(s) /\ s[p] = NL THEN 1 + NewlineRun(s, p + 1) ELSE 0

\* split.split(/\n{2,}/): the pieces of s between runs of two or more newlines.
RECURSIVE ParagraphSplitFrom(_, _, _)
ParagraphSplitFrom(s, p, q) ==
    IF q > Len(s) THEN << SubSeq(s, p, Len(s)) >>
    ELSE LET n == NewlineRun(s, q)
         IN  IF n < 2 THEN ParagraphSplitFrom(s, p, q + 1)
             ELSE << SubSeq(s, p, q - 1) >> \o ParagraphSplitFrom(s, q + n, q + n)

ParagraphSplit(s) == IF s = << >> THEN << << >> >> ELSE ParagraphSplitFrom(s, 1, 1)

\* The paragraph loop of an oversized section: st = [chunks, cur] after the
\* paragraphs ps have been folded in.
RECURSIVE ParagraphLoop(_, _, _, _)
ParagraphLoop(ps, st, minSize, maxSize) ==
    IF ps = << >> THEN st
    ELSE LET paragraph == Head(ps)
             next ==
               IF Len(Trim(paragraph)) = 0 THEN st
               ELSE IF Len(st.cur) + Len(paragraph) <= maxSize
                 THEN [st EXCEPT !.cur =
                          st.cur \o (IF st.cur # << >> THEN <<NL, NL>> ELSE << >>)
                                 \o paragraph]
                 ELSE [chunks |-> IF st.cur # << >> /\ Len(st.cur) >= minSize
                                    THEN Append(st.chunks, Trim(st.cur))
                                    ELSE st.chunks,
                       cur |-> paragraph]
         IN  ParagraphLoop(Tail(ps), next, minSize, maxSize)

\* One iteration of the loop over headerSplits.
SectionStep(chunks, split, minSize, maxSize) ==
    IF Len(Trim(split)) = 0 THEN chunks
    ELSE IF Len(split) <= maxSize THEN
        IF Len(split) >= minSize THEN Append(chunks, Trim(split))
        ELSE IF chunks # << >> /\ chunks[Len(chunks)] # << >>
                /\ Len(chunks[Len(chunks)]) + Len(split) <= maxSize
             THEN [chunks EXCEPT ![Len(chunks)] = @ \o <<NL, NL>> \o Trim(split)]
             ELSE Append(chunks, Trim(split))
    ELSE LET st == ParagraphLoop(ParagraphSplit(split),
                                 [chunks |-> chunks, cur |-> << >>],
                                 minSize, maxSize)
         IN  IF st.cur # << >> /\ Len(st.cur) >= minSize
               THEN Append(st.chunks, Trim(st.cur))
               ELSE st.chunks

RECURSIVE SectionLoop(_, _, _, _)
SectionLoop(splits, chunks, minSize, maxSize) ==
    IF splits = << >> THEN chunks
    ELSE SectionLoop(Tail(splits),
                     SectionStep(chunks, Head(splits), minSize, maxSize),
                     minSize, maxSize)

\* splitIntoChunks(document, minSize, maxSize)
splitIntoChunks(content, minSize, maxSize) ==
    SectionLoop(HeaderSplit(content), << >>, minSize, maxSize)

DefaultMinSize == 800
DefaultMaxSize == 8000

\* ---------------------------------------------------------------- ranker

Abs(n) == IF n < 0 THEN -n ELSE n

RECURSIVE Gcd(_, _)
Gcd(a, b) == IF b = 0 THEN a ELSE Gcd(b, a % b)

NaN == [num |-> 0, den |-> 0]

\* cosineSimilarity(vecA, vecB) = dot / (sqrt(normA) * sqrt(normB)), kept
\* exactly: the value is sign(num) * sqrt(|num| / den) with num = dot * |dot|
\* and den = normA * normB, reduced to lowest terms so that equal scores are
\* equal values.  A zero vector gives 0 / 0 = NaN.  The loop runs over the
\* indexes of vecA: where vecB is shorter, vecB[i] is undefined and the sums
\* it enters are NaN; where vecB is longer, its further elements are not read.
RECURSIVE SumProducts(_, _, _, _)
SumProducts(a, b, i, n) ==
    IF i > n THEN 0 ELSE a[i] * b[i] + SumProducts(a, b, i + 1, n)

cosineSimilarity(vecA, vecB) ==
    LET dotProduct == SumProducts(vecA, vecB, 1, Len(vecA))
        normA == SumProducts(vecA, vecA, 1, Len(vecA))
        normB == SumProducts(vecB, vecB, 1, Len(vecA))
        num == dotProduct * Abs(dotProduct)
        den == normA * normB
        g == Gcd(Abs(num), den)
    IN  IF Len(vecB) < Len(vecA) THEN NaN
        ELSE IF den = 0 THEN NaN
        ELSE [num |-> num \div g, den |-> den \div g]

\* a < b on scores (false when either is NaN, as for IEEE numbers).
ScoreLess(a, b) ==
    /\ a.den # 0
    /\ b.den # 0
    /\ a.num * b.den < b.num * a.den

ScoreGeq(a, b) ==
    /\ a.den # 0
    /\ b.den # 0
    /\ a.num * b.den >= b.num * a.den

\* The comparator (a, b) => b.similarity_score - a.similarity_score is
\* positive exactly when a's score is less than b's.
ComparatorPositive(a, b) == ScoreLess(a.similarity_score, b.similarity_score)

\* Array.prototype.sort is stable: r goes before the first element that the
\* comparator puts after it, and behind every other element already placed.
RECURSIVE InsertSorted(_, _)
InsertSorted(sorted, r) ==
    IF sorted = << >> THEN << r >>
    ELSE IF ComparatorPositive(Head(sorted), r) THEN << r >> \o sorted
    ELSE << Head(sorted) >> \o InsertSorted(Tail(sorted), r)

RECURSIVE SortFrom(_, _, _)
SortFrom(results, i, sorted) ==
    IF i > Len(results) THEN sorted
    ELSE SortFrom(results, i + 1, InsertSorted(sorted, results[i]))

RECURSIVE Reversed(_)
Reversed(seq) ==
    IF seq = << >> THEN << >> ELSE Reversed(Tail(seq)) \o << Head(seq) >>

\* The comparator written a - b: ascending order.
SortResultsAscending(results) == Reversed(SortFrom(results, 1, << >>))

\* A sort that is not stable: r goes before the elements of equal score that
\* are already placed.
RECURSIVE InsertBeforeTies(_, _)
InsertBeforeTies(sorted, r) ==
    IF sorted = << >> THEN << r >>
    ELSE IF ~ComparatorPositive(r, Head(sorted)) THEN << r >> \o sorted
    ELSE << Head(sorted) >> \o InsertBeforeTies(Tail(sorted), r)

RECURSIVE SortTiesReversedFrom(_, _, _)
SortTiesReversedFrom(results, i, sorted) ==
    IF i > Len(results) THEN sorted
    ELSE SortTiesReversedFrom(results, i + 1, InsertBeforeTies(sorted, results[i]))

SortResultsTiesReversed(results) == SortTiesReversedFrom(results, 1, << >>)

\* results.sort((a, b) => b.similarity_score - a.similarity_score)
SortResults(results) == SortFrom(results, 1, << >>)

\* vectorStore.entries.map(entry => ({...}))
ScoreEntries(entries, queryEmbedding) ==
    [i \in 1..Len(entries) |->
        [text_chunk |-> entries[i].chunk,
         source_repository |-> entries[i].metadata.repository,
         source_file |-> entries[i].metadata.file,
         similarity_score |-> cosineSimilarity(queryEmbedding, entries[i].embedding)]]

\* An optional string parameter: given = FALSE stands for undefined.
NoContext == [given |-> FALSE, text |-> << >>]

Context(text) == [given |-> TRUE, text |-> text]

\* if (repositoryContext): undefined and the empty string are falsy.
Truthy(repositoryContext) ==
    repositoryContext.given /\ repositoryContext.text # << >>

\* The filter that forgets the file path.
MatchesRepositoryOnly(result, repositoryContext) ==
    Includes(result.source_repository, repositoryContext.text)

\* The filter written with === instead of includes.
MatchesExactly(result, repositoryContext) ==
    \/ result.source_repository = repositoryContext.text
    \/ result.source_file = repositoryContext.text

MatchesContext(result, repositoryContext) ==
    \/ Includes(result.source_repository, repositoryContext.text)
    \/ Includes(result.source_file, repositoryContext.text)

RECURSIVE FilterFrom(_, _, _)
FilterFrom(results, i, repositoryContext) ==
    IF i > Len(results) THEN << >>
    ELSE (IF MatchesContext(results[i], repositoryContext)
            THEN << results[i] >> ELSE << >>)
         \o FilterFrom(results, i + 1, repositoryContext)

\* if (repositoryContext) { results = results.filter(...) }
FilterByContext(results, repositoryContext) ==
    IF Truthy(repositoryContext) THEN FilterFrom(results, 1, repositoryContext)
    ELSE results

\* The literal of results.slice(0, 5).
SliceEnd == 5

\* results.slice(0, 5); the config is in scope but not consulted.
SliceTop(results, config) == SubSeq(results, 1, Min(SliceEnd, Len(results)))

\* The synchronous tail of searchVectorStore once the store has been read.
RankEntries(entries, queryEmbedding, repositoryContext, config) ==
    SliceTop(
        SortResults(
            FilterByContext(ScoreEntries(entries, queryEmbedding), repositoryContext)),
        config)

\* --------------------------------------------------------------- embedder

\* 'Xenova/all-MiniLM-L6-v2' and one other model name.
DefaultModel == "M1"
OtherModel == "M2"

\* An optional Config: given = FALSE stands for an undefined config.
NoConfig ==
    [given |-> FALSE, embeddingModel |-> DefaultModel,
     minChunkSize |-> 0, maxChunkSize |-> 0, chunksReturned |-> 0]

MakeConfig(model, minSize, maxSize, k) ==
    [given |-> TRUE, embeddingModel |-> model,
     minChunkSize |-> minSize, maxChunkSize |-> maxSize, chunksReturned |-> k]

\* config?.embeddingModel || 'Xenova/all-MiniLM-L6-v2'
ModelName(config) ==
    IF config.given THEN config.embeddingModel ELSE DefaultModel

\* embeddingGeneratorCache = null
NoModel == [name |-> "null", id |-> 0]

\* The token representations of the two models (directions in the plane).
TokenVec(name, c) ==
    IF name = DefaultModel
      THEN (IF c = "a" THEN <<1, 0>> ELSE IF c = "b" THEN <<0, 1>> ELSE <<1, 1>>)
      ELSE (IF c = "a" THEN <<1, 0>> ELSE IF c = "b" THEN <<-1, 1>> ELSE <<0, 1>>)

RECURSIVE PoolFrom(_, _, _)
PoolFrom(name, text, i) ==
    IF i > Len(text) THEN <<0, 1>>
    ELSE LET t == TokenVec(name, text[i])
             r == PoolFrom(name, text, i + 1)
         IN  <<t[1] + r[1], t[2] + r[2]>>

\* Array.from((await model(text, {pooling: 'mean', normalize: true})).data):
\* the pooled token representations of the instance's model; the direction is
\* what normalisation keeps.
EmbedVec(instance, text) == PoolFrom(instance.name, text, 1)

\* ------------------------------------------------------------------ store

\* The JSON text of a string: a quotation mark, the characters with the
\* quotation mark, the backslash and the newline escaped, a quotation mark.
QUOTE == "\""
BACKSLASH == "\\"

Escaped(c) ==
    IF c = NL THEN <<BACKSLASH, "n">>
    ELSE IF c \in {QUOTE, BACKSLASH} THEN <<BACKSLASH, c>>
    ELSE <<c>>

RECURSIVE EscapedFrom(_, _)
EscapedFrom(s, p) ==
    IF p > Len(s) THEN << >> ELSE Escaped(s[p]) \o EscapedFrom(s, p + 1)

StringText(s) == <<QUOTE>> \o EscapedFrom(s, 1) \o <<QUOTE>>

\* The string a JSON string text stands for: what is between the quotation
\* marks, each escape read as the character it names.
RECURSIVE UnescapedFrom(_, _)
UnescapedFrom(t, p) ==
    IF p >= Len(t) THEN << >>
    ELSE IF t[p] = BACKSLASH
      THEN << IF t[p + 1] = "n" THEN NL ELSE t[p + 1] >> \o UnescapedFrom(t, p + 2)
    ELSE << t[p] >> \o UnescapedFrom(t, p + 1)

ParseString(t) == UnescapedFrom(t, 2)

\* The JSON text of a number: its decimal digits, with a minus sign when it
\* is negative.
DigitChars == <<"0", "1", "2", "3", "4", "5", "6", "7", "8", "9">>

RECURSIVE NaturalText(_)
NaturalText(n) ==
    IF n < Len(DigitChars) THEN << DigitChars[n + 1] >>
    ELSE NaturalText(n \div Len(DigitChars))
            \o << DigitChars[(n % Len(DigitChars)) + 1] >>

\* The number written without its sign.
NumberTextUnsigned(n) == NaturalText(Abs(n))

NumberText(n) == IF n < 0 THEN <<"-">> \o NaturalText(0 - n) ELSE NaturalText(n)

DigitValue(c) == CHOOSE d \in 0..(Len(DigitChars) - 1) : DigitChars[d + 1] = c

RECURSIVE ParseNatural(_, _)
ParseNatural(t, n) ==
    IF t = << >> THEN n
    ELSE ParseNatural(Tail(t), n * Len(DigitChars) + DigitValue(Head(t)))

ParseNumber(t) ==
    IF Head(t) = "-" THEN 0 - ParseNatural(Tail(t), 0) ELSE ParseNatural(t, 0)

\* JSON.stringify(vectorStore), as fs.writeJson writes it: the entries in
\* order, each with its keys, every string and number as its JSON text.
Stringify(entries) ==
    [k \in 1..Len(entries) |->
        [chunk |-> StringText(entries[k].chunk),
         embedding |-> [j \in 1..Len(entries[k].embedding) |->
                           NumberText(entries[k].embedding[j])],
         metadata |-> [repository |-> StringText(entries[k].metadata.repository),
                       file |-> StringText(entries[k].metadata.file),
                       dependency |-> StringText(entries[k].metadata.dependency)]]]

\* JSON.parse of the store file, as fs.readJson returns it.
ParseJson(text) ==
    [k \in 1..Len(text) |->
        [chunk |-> ParseString(text[k].chunk),
         embedding |-> [j \in 1..Len(text[k].embedding) |->
                           ParseNumber(text[k].embedding[j])],
         metadata |-> [repository |-> ParseString(text[k].metadata.repository),
                       file |-> ParseString(text[k].metadata.file),
                       dependency |-> ParseString(text[k].metadata.dependency)]]]

\* The number of characters of a JSON text of the store: those of the
\* strings and numbers, and those of the keys and the punctuation around
\* them ({"entries":[ ... ]} and a final newline, the entries separated by
\* commas, the numbers of an embedding separated by commas).
RECURSIVE NumbersLength(_)
NumbersLength(numbers) ==
    IF numbers = << >> THEN 0
    ELSE Len(Head(numbers)) + (IF Len(numbers) > 1 THEN 1 ELSE 0)
            + NumbersLength(Tail(numbers))

EntryLength(e) ==
    Len(<<"{", QUOTE, "c", "h", "u", "n", "k", QUOTE, ":">>) + Len(e.chunk)
    + Len(<<",", QUOTE, "e", "m", "b", "e", "d", "d", "i", "n", "g", QUOTE,
            ":", "[">>) + NumbersLength(e.embedding)
    + Len(<<"]", ",", QUOTE, "m", "e", "t", "a", "d", "a", "t", "a", QUOTE,
            ":", "{", QUOTE, "r", "e", "p", "o", "s", "i", "t", "o", "r", "y",
            QUOTE, ":">>) + Len(e.metadata.repository)
    + Len(<<",", QUOTE, "f", "i", "l", "e", QUOTE, ":">>) + Len(e.metadata.file)
    + Len(<<",", QUOTE, "d", "e", "p", "e", "n", "d", "e", "n", "c", "y",
            QUOTE, ":">>) + Len(e.metadata.dependency)
    + Len(<<"}", "}">>)

RECURSIVE EntriesLength(_)
EntriesLength(text) ==
    IF text = << >> THEN 0
    ELSE EntryLength(Head(text)) + (IF Len(text) > 1 THEN 1 ELSE 0)
            + EntriesLength(Tail(text))

TextLength(text) ==
    Len(<<"{", QUOTE, "e", "n", "t", "r", "i", "e", "s", QUOTE, ":", "[">>)
    + EntriesLength(text) + Len(<<"]", "}", NL>>)

AbsentFile == [state |-> "absent", text |-> << >>]

\* The existence check left out.
PathExistsAlways(f) == TRUE

\* fs.pathExists(vectorStorePath)
PathExists(f) == f.state # "absent"

\* fs.readJson(vectorStorePath): the parsed object, or an error when the file
\* is missing or does not hold a complete JSON text.
ReadJson(f) ==
    IF f.state = "complete" THEN [ok |-> TRUE, entries |-> ParseJson(f.text)]
    ELSE [ok |-> FALSE, entries |-> << >>]

\* The entry pushed for one chunk.
MakeEntry(chunk, embedding, repository, document, dependency) ==
    [chunk |-> chunk,
     embedding |-> embedding,
     metadata |-> [repository |-> repository.url,
                   file |-> document.path,
                   dependency |-> dependency.name]]

\* const chunks = splitIntoChunks(document): both size parameters take
\* their default values.
ChunksOf(document, config) ==
    splitIntoChunks(document.content, DefaultMinSize, DefaultMaxSize)

\* Next (document, chunk) position at or after (d, c) whose chunk is embedded;
\* chunks that trim to nothing are skipped.
RECURSIVE NextPosition(_, _, _, _)
NextPosition(documents, config, d, c) ==
    IF d > Len(documents) THEN [found |-> FALSE, d |-> d, c |-> 1]
    ELSE LET chunks == ChunksOf(documents[d], config)
         IN  IF c > Len(chunks) THEN NextPosition(documents, config, d + 1, 1)
             ELSE IF Trim(chunks[c]) = << >>
               THEN NextPosition(documents, config, d, c + 1)
             ELSE [found |-> TRUE, d |-> d, c |-> c]

\* ------------------------------------------------------------- the inputs

DocA == [content |-> <<"a">>, path |-> <<"/", "R">>, filename |-> "R"]
DocB == [content |-> <<"#", " ", "h", NL, "b", "a">>, path |-> <<"/", "e">>, filename |-> "e"]
DocBlank == [content |-> <<"#", " ", "t", NL, " ">>, path |-> <<"/", "n">>, filename |-> "n"]
DocC == [content |-> <<"b", "b", NL, NL, "b", "b">>, path |-> <<"/", "R">>, filename |-> "R"]

DepEx == [name |-> <<"e", "x">>, version |-> "1"]
DepRe == [name |-> <<"r", "e">>, version |-> "2"]
RepoEx == [url |-> <<"e", "x">>]
RepoRe == [url |-> <<"r", "e">>]

IndexRequest(dep, repo, docs, config) ==
    [dependency |-> dep, repository |-> repo, documents |-> docs, config |-> config]

ReqEx == IndexRequest(DepEx, RepoEx, <<DocA, DocBlank, DocB>>, NoConfig)
ReqRe == IndexRequest(DepRe, RepoRe, <<DocC>>, MakeConfig(OtherModel, 1, 3, 1))
IndexRequests == {ReqEx, ReqRe}

\* The entries one index operation of request r produces when every chunk is
\* embedded by an instance of the named model.
RECURSIVE EntriesFrom(_, _, _, _)
EntriesFrom(r, name, d, c) ==
    LET pos == NextPosition(r.documents, r.config, d, c)
    IN  IF ~pos.found THEN << >>
        ELSE LET chunk == ChunksOf(r.documents[pos.d], r.config)[pos.c]
             IN  << MakeEntry(chunk, EmbedVec([name |-> name, id |-> 1], chunk),
                              r.repository, r.documents[pos.d], r.dependency) >>
                 \o EntriesFrom(r, name, pos.d, pos.c + 1)

EntriesOf(r, name) == EntriesFrom(r, name, 1, 1)

\* What fs.writeJson leaves on disk once it has settled.
WrittenFile(vectorStore) ==
    [state |-> "complete", text |-> Stringify(vectorStore)]

\* Store files left by earlier runs of the program.
SmallStore == EntriesOf(ReqEx, DefaultModel)
LargeStore ==
    EntriesOf(ReqEx, DefaultModel) \o EntriesOf(ReqRe, OtherModel)
        \o EntriesOf(ReqRe, DefaultModel) \o EntriesOf(ReqEx, OtherModel)
\* The store after two dependencies with the same documentation text were
\* indexed: records of equal embedding that differ in their repository.
TiedStore ==
    EntriesOf(IndexRequest(DepRe, RepoRe, <<DocB, DocA>>, NoConfig), DefaultModel)
        \o EntriesOf(ReqEx, DefaultModel)
\* A store file that holds no complete JSON text (a write was cut short).
BrokenFile == [state |-> "partial", text |-> << >>]

\* The characters on disk: none in a file that is missing or was just opened
\* for writing.
SizeOnDisk(f) == IF f.state = "complete" THEN TextLength(f.text) ELSE 0

\* The file after the data of fs.writeJson is written at position 0 of the
\* open file f.  The file was truncated when this write opened it, so it holds
\* characters only when another write that was open at the same time has put
\* its data there since; what that data has beyond the length of the new data
\* stays behind it, and the file is then no JSON text.
Overwritten(f, vectorStore) ==
    IF TextLength(Stringify(vectorStore)) >= SizeOnDisk(f)
      THEN WrittenFile(vectorStore)
      ELSE BrokenFile
PriorFiles ==
    {AbsentFile, BrokenFile, WrittenFile(SmallStore), WrittenFile(LargeStore),
     WrittenFile(TiedStore)}
StartFiles == {AbsentFile, WrittenFile(SmallStore)}

\* The entries the earlier runs passed to fs.writeJson to leave the file f.
WrittenBefore(f) ==
    IF f = WrittenFile(SmallStore) THEN SmallStore
    ELSE IF f = WrittenFile(LargeStore) THEN LargeStore
    ELSE IF f = WrittenFile(TiedStore) THEN TiedStore
    ELSE << >>

Queries == {<<"a">>, <<"b", "b">>}
Contexts ==
    {NoContext, Context(<< >>), Context(<<"e">>), Context(<<"e", "x">>),
     Context(<<"E">>), Context(<<"R">>), Context(<<"z">>)}
Configs ==
    {NoConfig, MakeConfig(DefaultModel, 1, 3, 8), MakeConfig(OtherModel, 1, 3, 1)}

SearchRequest(query, context, config) ==
    [query |-> query, repository_context |-> context, config |-> config]

AllSearchRequests ==
    {SearchRequest(q, x, c) : q \in Queries, x \in Contexts, c \in Configs}
FewSearchRequests ==
    {SearchRequest(<<"a">>, NoContext, NoConfig),
     SearchRequest(<<"b", "b">>, Context(<<"e", "x">>), MakeConfig(OtherModel, 1, 3, 1))}

\* ------------------------------------------------------------------ state

\* Requests (index and search together) one behaviour starts.
MaxOps == 2

IndexOps == {"i1", "i2"}
\* A request takes the first free slot.
SlotsBefore(i) == IF i = "i2" THEN {"i1"} ELSE {}
SearchOps == {"s1"}

VARIABLES
    file,            \* <project>/.dependency-context/vector-store.json
    cache,           \* embeddingGeneratorCache
    pipelineCalls,   \* number of pipeline() invocations so far
    idx,             \* the locals of each indexDocumentation call
    srch,            \* the locals of each searchDependencyDocs call
    expected,        \* entries of the completed index operations, in order
    overlap,         \* two index operations have been in flight together
    started,         \* requests started so far
    run,             \* the locals of the analyzeAndIndexDependencies call
    call,            \* the arguments of a function called on its own
    result,          \* what that call returned
    written          \* the entries of the last fs.writeJson that settled

vars ==
    <<file, cache, pipelineCalls, idx, srch, expected, overlap, started,
      run, call, result, written>>

NoResponse == [sent |-> FALSE, results |-> << >>, hasError |-> FALSE, error |-> ""]

\* JSON.stringify({ results })
SuccessResponse(results) ==
    [sent |-> TRUE, results |-> results, hasError |-> FALSE, error |-> ""]

\* JSON.stringify({ results: [], error: errorMessage }): the answer of the
\* catch block of searchDependencyDocs.  searchVectorStore catches its own
\* errors, so no step of the search builds it.
FailureResponse(message) ==
    [sent |-> TRUE, results |-> << >>, hasError |-> TRUE, error |-> message]

IdleSearch ==
    [pc |-> "idle", request |-> SearchRequest(<< >>, NoContext, NoConfig),
     used |-> NoModel, loadId |-> 0, queryEmbedding |-> <<0, 0>>,
     loaded |-> << >>, ranked |-> FALSE, sawAbsent |-> FALSE,
     failure |-> "none", readCalls |-> 0, simCalls |-> 0,
     response |-> NoResponse]

IdleIndex ==
    [pc |-> "idle", request |-> ReqEx,
     used |-> NoModel, loadId |-> 0,
     vectorStore |-> << >>, d |-> 1, c |-> 1,
     before |-> AbsentFile, produced |-> << >>, failure |-> "none"]

InitCommon ==
    /\ cache = NoModel
    /\ pipelineCalls = 0
    /\ idx = [i \in IndexOps |-> IdleIndex]
    /\ srch = [s \in SearchOps |-> IdleSearch]
    /\ overlap = FALSE
    /\ started = 0

\* No index run is under way and no function is called on its own.
NoRun == [pc |-> "idle"]
NoCall == [fn |-> "none"]
NoResult == [returned |-> FALSE]

Init ==
    /\ file \in StartFiles
    /\ written = WrittenBefore(file)
    /\ expected = written
    /\ InitCommon
    /\ run = NoRun
    /\ call = NoCall
    /\ result = NoResult

InitSearch ==
    /\ file \in PriorFiles
    /\ written = WrittenBefore(file)
    /\ expected = written
    /\ InitCommon
    /\ run = NoRun
    /\ call = NoCall
    /\ result = NoResult

\* A call that has started and has neither returned nor thrown.  A finished
\* call keeps its locals until its slot serves the next request.
InFlight(l) == l.pc \notin {"idle", "done", "failed"}

\* -------------------------------------------------- generateEmbedding steps

\* The load is attempted once in the process: after a first attempt the
\* cache is called whatever it holds.
EmbedCallLoadOnce(l) ==
    IF cache = NoModel /\ pipelineCalls = 0
      THEN [l EXCEPT !.pc = "pipeline", !.loadId = pipelineCalls + 1]
      ELSE [l EXCEPT !.pc = "inference", !.used = cache]

\* The synchronous start of generateEmbedding: with an empty cache pipeline()
\* is called and awaited, otherwise the cached instance is called and awaited.
EmbedCall(l) ==
    IF cache = NoModel
      THEN [l EXCEPT !.pc = "pipeline", !.loadId = pipelineCalls + 1]
      ELSE [l EXCEPT !.pc = "inference", !.used = cache]

PipelineCallsAfter == IF cache = NoModel THEN pipelineCalls + 1 ELSE pipelineCalls

\* embeddingGeneratorCache = await pipeline('feature-extraction', modelName)
LoadedInstance(l) == [name |-> ModelName(l.request.config), id |-> l.loadId]

\* After the load the instance just assigned is the one called.
AfterLoad(l) == [l EXCEPT !.pc = "inference", !.used = LoadedInstance(l)]

\* ---------------------------------------------------- searchDependencyDocs

\* catch (error) { ...; return []; } in searchVectorStore
SearchCatch(error) == SuccessResponse(<< >>)

\* searchDependencyDocs up to the first await inside searchVectorStore; the
\* request r carries the query, the repository_context and the configuration
\* the call works with.
SearchStart(s, r) ==
    /\ ~InFlight(srch[s])
    /\ started < MaxOps
    /\ started' = started + 1
    /\ srch' = [srch EXCEPT ![s] = EmbedCall([IdleSearch EXCEPT !.request = r])]
    /\ pipelineCalls' = PipelineCallsAfter
    /\ UNCHANGED <<file, cache, idx, expected, overlap>>
    /\ UNCHANGED <<run, call, result, written>>

\* The model load of the query embedding settles.
SearchPipelineDone(s, ok) ==
    /\ srch[s].pc = "pipeline"
    /\ IF ok
         THEN /\ cache' = LoadedInstance(srch[s])
              /\ srch' = [srch EXCEPT ![s] = AfterLoad(@)]
         ELSE /\ srch' = [srch EXCEPT ![s].pc = "done",
                                      ![s].failure = "embed",
                                      ![s].response = SearchCatch("load")]
              /\ UNCHANGED cache
    /\ UNCHANGED <<file, pipelineCalls, idx, expected, overlap, started>>
    /\ UNCHANGED <<run, call, result, written>>

\* The inference of the query embedding settles; fs.pathExists is called.
SearchInferenceDone(s, ok) ==
    /\ srch[s].pc = "inference"
    /\ LET l == srch[s]
       IN  srch' = [srch EXCEPT ![s] =
             IF ok
               THEN [l EXCEPT !.pc = "pathExists",
                              !.queryEmbedding = EmbedVec(l.used, l.request.query)]
               ELSE [l EXCEPT !.pc = "done", !.failure = "embed",
                              !.response = SearchCatch("inference")]]
    /\ UNCHANGED <<file, cache, pipelineCalls, idx, expected, overlap, started>>
    /\ UNCHANGED <<run, call, result, written>>

\* fs.pathExists settles: without a store file the search returns [].
SearchPathExists(s) ==
    /\ srch[s].pc = "pathExists"
    /\ srch' = [srch EXCEPT ![s] =
                  IF PathExists(file)
                    THEN [@ EXCEPT !.pc = "readJson", !.readCalls = @ + 1]
                    ELSE [@ EXCEPT !.pc = "done", !.sawAbsent = TRUE,
                                   !.response = SuccessResponse(<< >>)]]
    /\ UNCHANGED <<file, cache, pipelineCalls, idx, expected, overlap, started>>
    /\ UNCHANGED <<run, call, result, written>>

\* fs.readJson settles: the entries are scored, filtered, sorted and cut, or
\* the error is caught.
SearchReadJson(s) ==
    /\ srch[s].pc = "readJson"
    /\ LET got == ReadJson(file)
           l == srch[s]
       IN  srch' = [srch EXCEPT ![s] =
             IF got.ok
               THEN [l EXCEPT !.pc = "done", !.loaded = got.entries,
                              !.ranked = TRUE,
                              !.simCalls = Len(got.entries),
                              !.response = SuccessResponse(
                                  RankEntries(got.entries, l.queryEmbedding,
                                              l.request.repository_context,
                                              l.request.config))]
               ELSE [l EXCEPT !.pc = "done", !.failure = "read",
                              !.response = SearchCatch("read")]]
    /\ UNCHANGED <<file, cache, pipelineCalls, idx, expected, overlap, started>>
    /\ UNCHANGED <<run, call, result, written>>

\* ------------------------------------------------------ indexDocumentation

\* The synchronous run of the document and chunk loops from position
\* (l.d, l.c) to the next await: the next generateEmbedding call, or
\* fs.writeJson when no chunk is left.
Proceed(l) ==
    LET pos == NextPosition(l.request.documents, l.request.config, l.d, l.c)
    IN  IF pos.found
          THEN EmbedCall([l EXCEPT !.d = pos.d, !.c = pos.c])
          ELSE [l EXCEPT !.pc = "writeJson", !.d = pos.d, !.c = pos.c]

ProceedCalls(l) ==
    IF NextPosition(l.request.documents, l.request.config, l.d, l.c).found
      THEN PipelineCallsAfter
      ELSE pipelineCalls

\* indexDocumentation is called; fs.ensureDir settles and fs.pathExists is
\* called.
IndexStart(i, r) ==
    /\ ~InFlight(idx[i])
    /\ started < MaxOps
    /\ started' = started + 1
    /\ \A j \in SlotsBefore(i) : InFlight(idx[j])
    /\ idx' = [idx EXCEPT ![i] =
                 [IdleIndex EXCEPT !.pc = "pathExists", !.request = r,
                                   !.before = file]]
    /\ overlap' = (overlap \/ \E j \in IndexOps \ {i} : InFlight(idx[j]))
    /\ UNCHANGED <<file, cache, pipelineCalls, srch, expected>>
    /\ UNCHANGED <<run, call, result, written>>

\* fs.pathExists settles: an existing store is read, a missing one starts
\* from { entries: [] }.
IndexPathExists(i) ==
    /\ idx[i].pc = "pathExists"
    /\ IF PathExists(file)
         THEN /\ idx' = [idx EXCEPT ![i].pc = "readJson"]
              /\ UNCHANGED pipelineCalls
         ELSE /\ idx' = [idx EXCEPT ![i] = Proceed(@)]
              /\ pipelineCalls' = ProceedCalls(idx[i])
    /\ UNCHANGED <<file, cache, srch, expected, overlap, started>>
    /\ UNCHANGED <<run, call, result, written>>

\* fs.readJson settles: the loaded store is the base the new entries are
\* pushed onto; an error is rethrown to the caller.
IndexReadJson(i) ==
    /\ idx[i].pc = "readJson"
    /\ LET got == ReadJson(file)
       IN  IF got.ok
             THEN /\ idx' = [idx EXCEPT ![i] =
                               Proceed([@ EXCEPT !.vectorStore = got.entries])]
                  /\ pipelineCalls' = ProceedCalls(idx[i])
             ELSE /\ idx' = [idx EXCEPT ![i].pc = "failed",
                                        ![i].failure = "read"]
                  /\ UNCHANGED pipelineCalls
    /\ UNCHANGED <<file, cache, srch, expected, overlap, started>>
    /\ UNCHANGED <<run, call, result, written>>

\* The model load of a chunk embedding settles.
IndexPipelineDone(i, ok) ==
    /\ idx[i].pc = "pipeline"
    /\ IF ok
         THEN /\ cache' = LoadedInstance(idx[i])
              /\ idx' = [idx EXCEPT ![i] = AfterLoad(@)]
         ELSE /\ idx' = [idx EXCEPT ![i].pc = "failed", ![i].failure = "embed"]
              /\ UNCHANGED cache
    /\ UNCHANGED <<file, pipelineCalls, srch, expected, overlap, started>>
    /\ UNCHANGED <<run, call, result, written>>

\* unshift in place of push.
UnshiftEntry(entries, entry) == << entry >> \o entries

\* The entries array after vectorStore.entries.push({...}).
PushEntry(entries, entry) == Append(entries, entry)

\* The entries pushed so far are saved when the inference fails.
IndexInferenceDoneSaving(i, ok) ==
    /\ idx[i].pc = "inference"
    /\ ~ok
    /\ idx' = [idx EXCEPT ![i].pc = "failed", ![i].failure = "embed"]
    /\ file' = WrittenFile(idx[i].vectorStore)
    /\ UNCHANGED <<cache, pipelineCalls, srch, expected, overlap, started>>
    /\ UNCHANGED <<run, call, result, written>>

\* The inference of a chunk embedding settles: the entry is pushed and the
\* loops run on to the next await.
IndexInferenceDone(i, ok) ==
    /\ idx[i].pc = "inference"
    /\ LET l == idx[i]
           document == l.request.documents[l.d]
           chunk == ChunksOf(document, l.request.config)[l.c]
           entry == MakeEntry(chunk, EmbedVec(l.used, chunk),
                              l.request.repository, document,
                              l.request.dependency)
           pushed == [l EXCEPT !.vectorStore = PushEntry(@, entry),
                               !.produced = Append(@, entry),
                               !.c = l.c + 1]
       IN  IF ok
             THEN /\ idx' = [idx EXCEPT ![i] = Proceed(pushed)]
                  /\ pipelineCalls' = ProceedCalls(pushed)
             ELSE /\ idx' = [idx EXCEPT ![i].pc = "failed",
                                        ![i].failure = "embed"]
                  /\ UNCHANGED pipelineCalls
    /\ UNCHANGED <<file, cache, srch, expected, overlap, started>>
    /\ UNCHANGED <<run, call, result, written>>

\* fs.writeJson opens the store file for writing: the old content is gone
\* and the new content is not yet there.
IndexWriteOpen(i) ==
    /\ idx[i].pc = "writeJson"
    /\ file' = BrokenFile
    /\ idx' = [idx EXCEPT ![i].pc = "writing"]
    /\ UNCHANGED <<cache, pipelineCalls, srch, expected, overlap, started>>
    /\ UNCHANGED <<run, call, result, written>>

\* fs.writeJson writes its data, closes the file and settles.
IndexWriteDone(i) ==
    /\ idx[i].pc = "writing"
    /\ file' = Overwritten(file, idx[i].vectorStore)
    /\ written' = idx[i].vectorStore
    /\ idx' = [idx EXCEPT ![i].pc = "done"]
    /\ expected' = expected \o idx[i].produced
    /\ UNCHANGED <<cache, pipelineCalls, srch, overlap, started>>
    /\ UNCHANGED <<run, call, result>>

\* ---------------------------------------------------------- specifications

SearchSteps(s) ==
    \/ \E ok \in BOOLEAN : SearchPipelineDone(s, ok)
    \/ \E ok \in BOOLEAN : SearchInferenceDone(s, ok)
    \/ SearchPathExists(s)
    \/ SearchReadJson(s)

IndexSteps(i) ==
    \/ \E r \in IndexRequests : IndexStart(i, r)
    \/ IndexPathExists(i)
    \/ IndexReadJson(i)
    \/ \E ok \in BOOLEAN : IndexPipelineDone(i, ok)
    \/ \E ok \in BOOLEAN : IndexInferenceDone(i, ok)
    \/ IndexWriteOpen(i)
    \/ IndexWriteDone(i)

Next ==
    \/ \E i \in IndexOps : IndexSteps(i)
    \/ \E s \in SearchOps, r \in FewSearchRequests : SearchStart(s, r)
    \/ \E s \in SearchOps : SearchSteps(s)

\* Index and search requests of one server process, interleaved at awaits.
Spec == Init /\ [][Next]_vars

NextSearch ==
    \/ \E s \in SearchOps, r \in AllSearchRequests : SearchStart(s, r)
    \/ \E s \in SearchOps : SearchSteps(s)

\* Searches, one after another, over a store left by earlier runs.
SpecSearch == InitSearch /\ [][NextSearch]_vars

\* ------------------------------------------------------------- properties

\* chunksReturned of defaultConfig.
DefaultChunksReturned == 5

\* The k a search is asked for: config.chunksReturned, 5 without a config.
RequestedK(config) ==
    IF config.given THEN config.chunksReturned ELSE DefaultChunksReturned

\* A stored entry passes the repository filter of a request.
EntryPasses(entry, context) ==
    \/ ~context.given
    \/ context.text = << >>
    \/ \E i \in 0..Len(entry.metadata.repository) :
         \E j \in i..Len(entry.metadata.repository) :
           SubSeq(entry.metadata.repository, i + 1, j) = context.text
    \/ \E i \in 0..Len(entry.metadata.file) :
         \E j \in i..Len(entry.metadata.file) :
           SubSeq(entry.metadata.file, i + 1, j) = context.text

PassingIndexes(entries, context) ==
    {i \in 1..Len(entries) : EntryPasses(entries[i], context)}

\* A search that ended after reading the store, without a caught error.
Ranked(l) == l.pc = "done" /\ l.ranked

\* The result an entry is reported as, for the query embedding of search l.
ResultOf(entry, l) ==
    [text_chunk |-> entry.chunk,
     source_repository |-> entry.metadata.repository,
     source_file |-> entry.metadata.file,
     similarity_score |-> cosineSimilarity(l.queryEmbedding, entry.embedding)]

Occurrences(seq, v) == Cardinality({i \in 1..Len(seq) : seq[i] = v})

\* C1: a search that meets no error returns exactly min(k, m) results, k the
\* chunksReturned of its config (5 without a config) and m the number of
\* stored records that pass the repository filter.
C1_ReturnsMinOfKAndMatches ==
    \A s \in SearchOps :
        (srch[s].pc = "done" /\ srch[s].failure = "none") =>
            Len(srch[s].response.results) =
                Min(RequestedK(srch[s].request.config),
                    Cardinality(PassingIndexes(srch[s].loaded,
                                               srch[s].request.repository_context)))

C4_FilterNoneAndAll ==
    \A s \in SearchOps :
        (Ranked(srch[s]) /\ Truthy(srch[s].request.repository_context)) =>
            LET l == srch[s]
                passing == PassingIndexes(l.loaded, l.request.repository_context)
            IN  /\ passing = {} => l.response.results = << >>
                /\ passing = 1..Len(l.loaded) =>
                      l.response.results =
                          RankEntries(l.loaded, l.queryEmbedding, NoContext,
                                      l.request.config)

\* A search whose non-empty repository_context matched every one of at least
\* two records with different scores.
C4_Witness ==
    \E s \in SearchOps :
        LET l == srch[s]
        IN  /\ Ranked(l)
            /\ Truthy(l.request.repository_context)
            /\ Len(l.loaded) >= 2
            /\ PassingIndexes(l.loaded, l.request.repository_context)
                  = 1..Len(l.loaded)
            /\ Len(l.response.results) >= 2
            /\ l.response.results[1].similarity_score
                  # l.response.results[2].similarity_score

\* C5: without a store file a search answers with the successful empty
\* response, reads no store and computes no similarity.
C5_AbsentStoreEmptySuccess ==
    \A s \in SearchOps :
        (srch[s].pc = "done" /\ file.state = "absent") =>
            /\ srch[s].response = SuccessResponse(<< >>)
            /\ srch[s].readCalls = 0
            /\ srch[s].simCalls = 0

\* A search that embedded its query and then found no store file.
C5_Witness ==
    \E s \in SearchOps :
        /\ srch[s].pc = "done"
        /\ file.state = "absent"
        /\ srch[s].sawAbsent
        /\ srch[s].failure = "none"
        /\ srch[s].response.sent

\* C6: when embedding the query or reading the store fails, the response
\* holds an empty result set together with an error description.
C6_FailureCarriesError ==
    \A s \in SearchOps :
        (srch[s].pc = "done" /\ srch[s].failure # "none") =>
            /\ srch[s].response.results = << >>
            /\ srch[s].response.hasError

\* No index operation is between opening the store file and finishing it.
StoreAtRest == \A i \in IndexOps : idx[i].pc # "writing"

\* An entry without its embedding.
Unembedded(entries) ==
    [k \in 1..Len(entries) |->
        [chunk |-> entries[k].chunk, metadata |-> entries[k].metadata]]

\* C7: after successful index operations that did not overlap, the store is
\* the records of the operations one after the other, in operation order and
\* within an operation in document order and chunk order; what was there
\* before an operation is still there, at the same positions.
C7_StoreIsConcatenation ==
    ~overlap =>
        /\ (StoreAtRest /\ file.state = "complete") =>
              ReadJson(file).entries = expected
        /\ (StoreAtRest /\ file.state = "absent") => expected = << >>
        /\ \A i \in IndexOps :
              idx[i].pc \in {"writeJson", "writing", "done"} =>
                  /\ idx[i].vectorStore =
                        ReadJson(idx[i].before).entries \o idx[i].produced
                  /\ Unembedded(idx[i].produced) =
                        Unembedded(EntriesOf(idx[i].request, DefaultModel))

\* Two index operations of the same dependency ran one after the other over
\* a store that already held its records: the store holds them three times.
C7_Witness ==
    /\ ~overlap
    /\ started = 2
    /\ \A i \in IndexOps : ~InFlight(idx[i])
    /\ \E i \in IndexOps : idx[i].pc = "done" /\ Len(idx[i].before.text) = 4
    /\ file.state = "complete"
    /\ Len(file.text) = 6
    /\ ReadJson(file).entries = expected
    /\ file.text[1] = file.text[3]
    /\ file.text[3] = file.text[5]

\* C8: a load of the store that runs while an index operation writes it sees
\* the complete previous or the complete new record sequence: no load fails
\* on a store file that is not a complete JSON text.
C8_NoPartialStoreObserved ==
    /\ \A s \in SearchOps : srch[s].failure # "read"
    /\ \A i \in IndexOps : idx[i].failure # "read"

\* C9: pipeline() is invoked at most once in the process.
C9_PipelineInvokedAtMostOnce == pipelineCalls <= 1

\* C10: once a model instance is cached it is never replaced, and every embed
\* call made from then on is served by it.
C10_CachedInstanceKept ==
    [][cache # NoModel =>
          /\ cache' = cache
          /\ \A i \in IndexOps :
                (idx[i].pc # "inference" /\ idx'[i].pc = "inference")
                    => idx'[i].used = cache
          /\ \A s \in SearchOps :
                (srch[s].pc # "inference" /\ srch'[s].pc = "inference")
                    => srch'[s].used = cache]_vars

\* C11: a failed embedding of one chunk ends the work on that chunk's
\* document only: while documents with chunks to embed come after it, the
\* index operation goes on and does not end in failure.
C11_EmbedFailureSkipsOnlyDocument ==
    \A i \in IndexOps :
        (idx[i].failure = "embed"
            /\ NextPosition(idx[i].request.documents, idx[i].request.config,
                            idx[i].d + 1, 1).found)
          => idx[i].pc # "failed"

\* The chunk bounds a configuration asks for: its own, 800 and 8000 without
\* a configuration.
ConfiguredMinSize(config) ==
    IF config.given THEN config.minChunkSize ELSE DefaultMinSize

ConfiguredMaxSize(config) ==
    IF config.given THEN config.maxChunkSize ELSE DefaultMaxSize

NotBlank(chunk) == Trim(chunk) # << >>

\* The chunk texts of the documents from the d-th on, split with the bounds
\* of the configuration.
RECURSIVE ConfiguredChunkTexts(_, _, _)
ConfiguredChunkTexts(documents, config, d) ==
    IF d > Len(documents) THEN << >>
    ELSE SelectSeq(splitIntoChunks(documents[d].content,
                                   ConfiguredMinSize(config),
                                   ConfiguredMaxSize(config)),
                   NotBlank)
         \o ConfiguredChunkTexts(documents, config, d + 1)

ChunkTexts(entries) == [k \in 1..Len(entries) |-> entries[k].chunk]

\* C12: the records an index operation has produced when it writes the store
\* hold the chunks of its documents split with the bounds of its
\* configuration (800 and 8000 without one).
C12_ChunksUseConfiguredBounds ==
    \A i \in IndexOps :
        idx[i].pc \in {"writeJson", "writing", "done"} =>
            ChunkTexts(idx[i].produced) =
                ConfiguredChunkTexts(idx[i].request.documents,
                                     idx[i].request.config, 1)

\* ------------------------------------------------ the chunker on its own

\* Pieces a document text is put together from.
MaxBlocks == 4
\* Largest chunk bound tried.
MaxSize == 4

Blocks ==
    {<<"a">>, <<"b", "a">>, <<SP>>, <<NL>>, <<NL, NL>>, <<HASH>>,
     <<HASH, SP, "h", NL>>}

\* Document.content: the texts of at most n blocks.
RECURSIVE TextsOf(_)
TextsOf(n) ==
    IF n = 0 THEN {<< >>}
    ELSE LET shorter == TextsOf(n - 1)
         IN  shorter \cup {t \o b : t \in shorter, b \in Blocks}

\* The calls splitIntoChunks(document, minSize, maxSize) with minSize < maxSize.
ChunkerCalls ==
    {c \in {[fn |-> "splitIntoChunks", content |-> t,
             minSize |-> m, maxSize |-> n] :
                t \in TextsOf(MaxBlocks), m \in 1..MaxSize, n \in 1..MaxSize} :
        c.minSize < c.maxSize}

\* The process at rest: no store file, nothing cached, no request started.
AtRest ==
    /\ file = AbsentFile
    /\ written = << >>
    /\ expected = << >>
    /\ InitCommon
    /\ run = NoRun

InitChunker ==
    /\ AtRest
    /\ call \in ChunkerCalls
    /\ result = NoResult

\* splitIntoChunks returns its chunks.
SplitReturns ==
    /\ call.fn = "splitIntoChunks"
    /\ ~result.returned
    /\ result' = [returned |-> TRUE,
                  chunks |-> splitIntoChunks(call.content, call.minSize,
                                             call.maxSize)]
    /\ UNCHANGED <<file, cache, pipelineCalls, idx, srch, expected, overlap,
                   started, run, call, written>>

NextChunker == SplitReturns

\* One call of the chunker, for every document text and pair of bounds.
SpecChunker == InitChunker /\ [][NextChunker]_vars

Chunked == call.fn = "splitIntoChunks" /\ result.returned

\* C13: every chunk the chunker returns is non-empty and neither begins nor
\* ends with a whitespace character.
C13_ChunksTrimmedNonEmpty ==
    Chunked =>
        \A k \in 1..Len(result.chunks) :
            LET chunk == result.chunks[k]
            IN  /\ Len(chunk) > 0
                /\ ~IsSpace(chunk[1])
                /\ ~IsSpace(chunk[Len(chunk)])

\* The chunker returned two or more chunks for a document with a section
\* between headers that has text and whitespace around it.
C13_Witness ==
    /\ Chunked
    /\ Len(result.chunks) >= 2
    /\ \E k \in 1..Len(HeaderSplit(call.content)) :
          LET split == HeaderSplit(call.content)[k]
          IN  /\ split # << >>
              /\ IsSpace(split[1])
              /\ IsSpace(split[Len(split)])
              /\ \E p \in 1..Len(split) : ~IsSpace(split[p])

NotSpace(c) == ~IsSpace(c)

\* The characters of a text that are not whitespace, in order.
NonWhitespace(text) == SelectSeq(text, NotSpace)

\* The texts of a sequence one after the other.
RECURSIVE Concatenated(_)
Concatenated(texts) ==
    IF texts = << >> THEN << >>
    ELSE Head(texts) \o Concatenated(Tail(texts))

\* a can be had from b by leaving characters out.
RECURSIVE IsSubsequence(_, _)
IsSubsequence(a, b) ==
    IF a = << >> THEN TRUE
    ELSE IF b = << >> THEN FALSE
    ELSE IF Head(a) = Head(b) THEN IsSubsequence(Tail(a), Tail(b))
    ELSE IsSubsequence(a, Tail(b))

\* No paragraph buffer of an oversized section was dropped for being shorter
\* than minSize: each oversized section gives the chunks it gives when no
\* buffer is too short to keep.
NoBufferDropped(content, minSize, maxSize) ==
    \A k \in 1..Len(HeaderSplit(content)) :
        LET split == HeaderSplit(content)[k]
        IN  Len(split) > maxSize =>
                SectionStep(<< >>, split, minSize, maxSize)
                    = SectionStep(<< >>, split, 0, maxSize)

\* C14: the chunks one after the other hold, whitespace aside, only
\* characters of the document in their order, and all of its characters that
\* are not whitespace when no paragraph buffer of an oversized section was
\* dropped for being shorter than min_size.
C14_ContentPreserved ==
    Chunked =>
        LET kept == NonWhitespace(Concatenated(result.chunks))
            all == NonWhitespace(call.content)
        IN  /\ IsSubsequence(kept, all)
            /\ NoBufferDropped(call.content, call.minSize, call.maxSize)
                  => kept = all

\* A text holds a blank line: a run of two or more newlines.
HasBlankLine(text) == \E p \in 1..Len(text) : NewlineRun(text, p) >= 2

\* C15: a chunk is at most max_size long unless it is one single paragraph
\* (a text without a blank line in it) that is by itself longer than that.
C15_ChunkWithinMaxSize ==
    Chunked =>
        \A k \in 1..Len(result.chunks) :
            \/ Len(result.chunks[k]) <= call.maxSize
            \/ ~HasBlankLine(result.chunks[k])

\* ------------------------------------------- analyzeAndIndexDependencies

\* Dependencies parseDependencies may return for one project.
MaxDeps == 2

\* The lists of at most n dependencies.
RECURSIVE DependencyLists(_)
DependencyLists(n) ==
    IF n = 0 THEN {<< >>}
    ELSE LET shorter == DependencyLists(n - 1)
         IN  shorter \cup {Append(l, d) : l \in shorter, d \in {DepEx, DepRe}}

\* What findGitHubRepository and fetchDocs give for a dependency.
RepositoryOf(dep) == IF dep = DepEx THEN RepoEx ELSE RepoRe
DocumentsOf(dep) == IF dep = DepEx THEN <<DocA, DocBlank, DocB>> ELSE <<DocC>>
\* Markdown files that hold a header line and nothing else.
BlankDocuments == <<DocBlank>>

\* getConfig(project_path) with nothing set in the environment.
DefaultConfig ==
    MakeConfig(DefaultModel, DefaultMinSize, DefaultMaxSize, DefaultChunksReturned)

\* JSON.stringify({ status, message }); the message is kept as its kind.
RunResponse(status, message) == [status |-> status, message |-> message]

\* The locals of analyzeAndIndexDependencies after the path check.
StartedRun(dependencies) ==
    [pc |-> "progress", at |-> "0",
     dependencies |-> dependencies, k |-> 0, docs |-> "none",
     successCount |-> 0, errorCount |-> 0, errors |-> << >>,
     processed |-> << >>, chunksWritten |-> 0, rejected |-> 0, reported |-> 1,
     increments |-> 0, progress |-> << 0 >>,
     response |-> RunResponse("none", "none")]

\* return JSON.stringify(...): the call is over.
Returned(r, status, message) ==
    [r EXCEPT !.pc = "returned", !.response = RunResponse(status, message)]

\* The outer catch.
OuterCatch(r) == Returned(r, "failure", "Failed to analyze dependencies")

\* Math.round(currentProgress) after currentProgress, which starts at 20, has
\* been raised n times by progressIncrement / 3, progressIncrement being
\* 70 / dependencies.length: the integer nearest to 20 + 70 n / (3 N), a half
\* rounded up.
RoundedProgress(N, n) == (2 * (60 * N + 70 * n) + 3 * N) \div (6 * N)

\* The raises of currentProgress before the report at place `at`.
IncrementsAt(r, at) ==
    IF at \in {"found", "fetched", "indexed"} THEN r.increments + 1
    ELSE r.increments

\* The progress value reported at place `at`.
ProgressAt(r, at) ==
    IF at = "10" THEN 10
    ELSE IF at = "20" THEN 20
    ELSE IF at = "100" THEN 100
    ELSE RoundedProgress(Len(r.dependencies), IncrementsAt(r, at))

\* The report after findGitHubRepository left out.
ReportExceptFound(r, at) ==
    IF at = "found"
      THEN [r EXCEPT !.pc = "progress", !.at = at,
                     !.increments = IncrementsAt(r, at)]
      ELSE [r EXCEPT !.pc = "progress", !.at = at, !.reported = @ + 1,
                     !.increments = IncrementsAt(r, at),
                     !.progress = Append(@, ProgressAt(r, at))]

\* await reportProgress(...) is called at place `at`, after currentProgress
\* has been raised when the place is in the loop.
Report(r, at) ==
    [r EXCEPT !.pc = "progress", !.at = at, !.reported = @ + 1,
              !.increments = IncrementsAt(r, at),
              !.progress = Append(@, ProgressAt(r, at))]

\* The loop takes the next dependency and calls findGitHubRepository, or is
\* over and reports the progress 100.
NextDependency(r) ==
    IF r.k < Len(r.dependencies)
      THEN [r EXCEPT !.pc = "find", !.k = r.k + 1,
                     !.processed = Append(@, r.k + 1)]
      ELSE Report(r, "100")

\* errors.push(...); errorCount++; and on to the next dependency (by continue
\* or at the end of the catch block).
CountError(r, kind) ==
    NextDependency([r EXCEPT !.errors = Append(@, [kind |-> kind, dep |-> r.k]),
                             !.errorCount = @ + 1])

\* indexDocumentation(project_path, dep, repo, docs, config) is called; its
\* fs.ensureDir settles and fs.pathExists is called.
IndexCall(r) ==
    LET dep == r.dependencies[r.k]
    IN  [IdleIndex EXCEPT
            !.pc = "pathExists",
            !.request = IndexRequest(dep, RepositoryOf(dep),
                                     IF r.docs = "blank" THEN BlankDocuments
                                     ELSE DocumentsOf(dep),
                                     DefaultConfig),
            !.before = file]

\* The call: the project path is checked and the progress 0 is reported.
AnalyzeStart(pathValid, dependencies) ==
    /\ run.pc = "idle"
    /\ run' = IF pathValid
                THEN StartedRun(dependencies)
                ELSE Returned(StartedRun(dependencies), "failure",
                              "Invalid project path")
    /\ UNCHANGED <<file, cache, pipelineCalls, idx, srch, expected, overlap,
                   started, call, result, written>>

\* An awaited reportProgress settles; an error inside the loop is caught by
\* the loop's catch, one outside it by the outer catch.
AnalyzeProgressDone(ok) ==
    /\ run.pc = "progress"
    /\ LET r == IF ok THEN run ELSE [run EXCEPT !.rejected = @ + 1]
       IN  run' =
             IF r.at = "0"
               THEN (IF ok THEN Report(r, "10") ELSE OuterCatch(r))
             ELSE IF r.at = "10"
               THEN (IF ok THEN [r EXCEPT !.pc = "parse"] ELSE OuterCatch(r))
             ELSE IF r.at = "20"
               THEN (IF ok THEN NextDependency(r) ELSE OuterCatch(r))
             ELSE IF r.at = "found"
               THEN (IF ok THEN [r EXCEPT !.pc = "fetch"]
                     ELSE CountError(r, "error"))
             ELSE IF r.at = "fetched"
               THEN (IF ok THEN [r EXCEPT !.pc = "index"]
                     ELSE CountError(r, "error"))
             ELSE IF r.at = "indexed"
               THEN (IF ok THEN NextDependency(r) ELSE CountError(r, "error"))
             ELSE (IF ok
                     THEN Returned(r,
                                   IF r.successCount > 0 THEN "success"
                                   ELSE "failure",
                                   "Processed")
                     ELSE OuterCatch(r))
    /\ idx' = IF ok /\ run.at = "fetched"
                THEN [idx EXCEPT !["i1"] = IndexCall(run)]
                ELSE idx
    /\ UNCHANGED <<file, cache, pipelineCalls, srch, expected, overlap,
                   started, call, result, written>>

\* parseDependencies settles.
AnalyzeParseDone(ok) ==
    /\ run.pc = "parse"
    /\ run' = IF ~ok THEN OuterCatch(run)
              ELSE IF Len(run.dependencies) = 0
                THEN Returned(run, "failure", "No dependencies found in project")
              ELSE Report(run, "20")
    /\ UNCHANGED <<file, cache, pipelineCalls, idx, srch, expected, overlap,
                   started, call, result, written>>

\* findGitHubRepository settles: a repository, null, or an error.
AnalyzeFindDone(outcome) ==
    /\ run.pc = "find"
    /\ run' = IF outcome = "repository" THEN Report(run, "found")
              ELSE IF outcome = "null" THEN CountError(run, "no repository")
              ELSE CountError(run, "error")
    /\ UNCHANGED <<file, cache, pipelineCalls, idx, srch, expected, overlap,
                   started, call, result, written>>

\* fetchDocs settles: documents, an empty list, or an error.
AnalyzeFetchDone(outcome) ==
    /\ run.pc = "fetch"
    /\ run' = IF outcome \in {"documents", "blank"}
                THEN [Report(run, "fetched") EXCEPT !.docs = outcome]
              ELSE IF outcome = "empty" THEN CountError(run, "no documentation")
              ELSE CountError(run, "error")
    /\ UNCHANGED <<file, cache, pipelineCalls, idx, srch, expected, overlap,
                   started, call, result, written>>

\* indexDocumentation has settled: successCount++ and the next progress
\* report, or the loop's catch.
AnalyzeIndexSettled ==
    /\ run.pc = "index"
    /\ idx["i1"].pc \in {"done", "failed"}
    /\ run' = IF idx["i1"].pc = "done"
                THEN Report([run EXCEPT !.successCount = @ + 1,
                                        !.chunksWritten =
                                            @ + Len(idx["i1"].produced)],
                            "indexed")
                ELSE CountError(run, "error")
    /\ UNCHANGED <<file, cache, pipelineCalls, idx, srch, expected, overlap,
                   started, call, result, written>>

\* The steps of the indexDocumentation call the run is waiting for.
AnalyzeIndexSteps ==
    /\ run.pc = "index"
    /\ \/ IndexPathExists("i1")
       \/ IndexReadJson("i1")
       \/ \E ok \in BOOLEAN : IndexPipelineDone("i1", ok)
       \/ \E ok \in BOOLEAN : IndexInferenceDone("i1", ok)
       \/ IndexWriteOpen("i1")
       \/ IndexWriteDone("i1")

InitAnalyze ==
    /\ file \in StartFiles \cup {BrokenFile}
    /\ written = WrittenBefore(file)
    /\ expected = written
    /\ InitCommon
    /\ run = NoRun
    /\ call = NoCall
    /\ result = NoResult

NextAnalyze ==
    \/ \E pathValid \in BOOLEAN, dependencies \in DependencyLists(MaxDeps) :
          AnalyzeStart(pathValid, dependencies)
    \/ \E ok \in BOOLEAN : AnalyzeProgressDone(ok)
    \/ \E ok \in BOOLEAN : AnalyzeParseDone(ok)
    \/ \E outcome \in {"repository", "null", "error"} : AnalyzeFindDone(outcome)
    \/ \E outcome \in {"documents", "blank", "empty", "error"} :
          AnalyzeFetchDone(outcome)
    \/ AnalyzeIndexSettled
    \/ AnalyzeIndexSteps

\* One index run of the InitializeDependencyIndex tool.
SpecAnalyze == InitAnalyze /\ [][NextAnalyze]_vars

\* The run ended with the result built after the loop.
Completed == run.pc = "returned" /\ run.response.message = "Processed"

\* C16: a finished index run reports the status success exactly when it
\* embedded at least one chunk and wrote it to the store, and failure
\* otherwise.
C16_SuccessIffChunkWritten ==
    run.pc = "returned" =>
        (run.response.status = "success" <=> run.chunksWritten > 0)

\* C17: a run that completes has taken every dependency once and in order,
\* and has counted each once: successCount + errorCount is the number of
\* dependencies and every counted error left one message.
C17_EachDependencyCountedOnce ==
    Completed =>
        /\ run.processed = [j \in 1..Len(run.dependencies) |-> j]
        /\ run.successCount + run.errorCount = Len(run.dependencies)
        /\ Len(run.errors) = run.errorCount

\* ------------------------------------------ cosineSimilarity on its own

\* Longest vector and largest component tried.
MaxDim == 2
MaxCoord == 1

\* number[]: the vectors of 1 to n components.
RECURSIVE VectorsOf(_)
VectorsOf(n) ==
    IF n = 0 THEN {}
    ELSE VectorsOf(n - 1) \cup [1..n -> (0 - MaxCoord)..MaxCoord]

\* The calls cosineSimilarity(queryEmbedding, entry.embedding).
CosineCalls ==
    {[fn |-> "cosineSimilarity", vecA |-> a, vecB |-> b] :
        a \in VectorsOf(MaxDim), b \in VectorsOf(MaxDim)}

InitCosine ==
    /\ AtRest
    /\ call \in CosineCalls
    /\ result = NoResult

\* cosineSimilarity returns the score.
CosineReturns ==
    /\ call.fn = "cosineSimilarity"
    /\ ~result.returned
    /\ result' = [returned |-> TRUE,
                  score |-> cosineSimilarity(call.vecA, call.vecB)]
    /\ UNCHANGED <<file, cache, pipelineCalls, idx, srch, expected, overlap,
                   started, run, call, written>>

NextCosine == CosineReturns

\* One call of cosineSimilarity, for every pair of vectors.
SpecCosine == InitCosine /\ [][NextCosine]_vars

Scored == call.fn = "cosineSimilarity" /\ result.returned

\* A score is a number of the interval [-1, 1]: it is not NaN and its square
\* |num| / den is at most 1.
InUnitInterval(score) == score.den # 0 /\ Abs(score.num) <= score.den

\* C18: the similarity score of every query embedding with every stored
\* embedding is a number in the closed interval [-1, 1].
C18_ScoreInUnitInterval == Scored => InUnitInterval(result.score)

\* ------------------------------------------------- the store round trip

\* C19: what a load of the store file returns, in a search or in the next
\* index operation, is the entry sequence the last settled write was given:
\* the same entries in the same order, each with the same chunk text,
\* repository, file path, dependency name and embedding values.
C19_LoadReturnsWhatWasWritten ==
    [][/\ \A s \in SearchOps :
            (srch[s].pc = "readJson" /\ srch'[s].ranked)
                => srch'[s].loaded = written
       /\ \A i \in IndexOps :
            (idx[i].pc = "readJson" /\ idx'[i].pc \notin {"readJson", "failed"})
                => idx'[i].vectorStore = written]_vars

\* A search has loaded the entries an index operation of this process wrote
\* after the entries of an earlier run: among them are a chunk with a blank
\* line in it and an embedding with a negative component.
C19_Witness ==
    \E s \in SearchOps :
        /\ Ranked(srch[s])
        /\ srch[s].loaded = written
        /\ \E i \in IndexOps :
              /\ idx[i].pc = "done"
              /\ idx[i].produced # << >>
              /\ idx[i].before.state = "complete"
              /\ idx[i].before.text # << >>
              /\ written = ReadJson(idx[i].before).entries \o idx[i].produced
        /\ \E k \in 1..Len(written) :
              /\ HasBlankLine(written[k].chunk)
              /\ \E j \in 1..Len(written[k].embedding) :
                    written[k].embedding[j] < 0

\* -------------------------------------------------------------- getConfig

\* A variable of an environment: unset (undefined), or set to a text.
Unset == [set |-> FALSE, text |-> << >>]
Value(text) == [set |-> TRUE, text |-> text]

\* if (env.X): an unset variable and the empty string are falsy.
IsSet(v) == v.set /\ v.text # << >>

\* A number, or NaN.
Number(n) == [nan |-> FALSE, value |-> n]
NotANumber == [nan |-> TRUE, value |-> 0]

IsDigit(c) == \E d \in 1..Len(DigitChars) : DigitChars[d] = c

\* The longest run of digits a text begins with.
RECURSIVE DigitPrefix(_)
DigitPrefix(t) ==
    IF t # << >> /\ IsDigit(Head(t)) THEN << Head(t) >> \o DigitPrefix(Tail(t))
    ELSE << >>

\* parseInt(text, 10): leading whitespace is skipped, a sign is read, then
\* the digits up to the first other character; NaN without a digit.
ParseInt(text) ==
    LET t == TrimStart(text)
        signed == t # << >> /\ Head(t) \in {"-", "+"}
        digits == DigitPrefix(IF signed THEN Tail(t) ELSE t)
    IN  IF digits = << >> THEN NotANumber
        ELSE IF signed /\ Head(t) = "-"
          THEN Number(0 - ParseNatural(digits, 0))
        ELSE Number(ParseNatural(digits, 0))

DefaultPort == 3000
\* 'Xenova/all-MiniLM-L6-v2' as a text.
DefaultModelText == <<"M", "1">>

defaultConfig ==
    [port |-> Number(DefaultPort),
     githubToken |-> Unset,
     embeddingModel |-> Value(DefaultModelText),
     debugMode |-> FALSE,
     minChunkSize |-> Number(DefaultMinSize),
     maxChunkSize |-> Number(DefaultMaxSize),
     chunksReturned |-> Number(DefaultChunksReturned)]

TrueText == <<"t", "r", "u", "e">>

\* Lines 38-69 of getConfig: the values of process.env over the defaults.
ApplyProcessEnv(config, env) ==
    [port |-> IF IsSet(env.PORT) THEN ParseInt(env.PORT.text) ELSE config.port,
     githubToken |->
        IF IsSet(env.GITHUB_TOKEN) THEN env.GITHUB_TOKEN ELSE config.githubToken,
     embeddingModel |->
        IF IsSet(env.MODEL_NAME) THEN env.MODEL_NAME ELSE config.embeddingModel,
     debugMode |-> IF env.DEBUG = Value(TrueText) THEN TRUE ELSE config.debugMode,
     minChunkSize |->
        IF IsSet(env.MIN_CHUNK_SIZE) THEN ParseInt(env.MIN_CHUNK_SIZE.text)
        ELSE config.minChunkSize,
     maxChunkSize |->
        IF IsSet(env.MAX_CHUNK_SIZE) THEN ParseInt(env.MAX_CHUNK_SIZE.text)
        ELSE config.maxChunkSize,
     chunksReturned |->
        IF IsSet(env.CHUNKS_RETURNED) THEN ParseInt(env.CHUNKS_RETURNED.text)
        ELSE config.chunksReturned]

\* Lines 94-116 of tryLoadProjectEnv: the values of one parsed env file over
\* the config; PORT is not read from a file.
ApplyEnvConfig(config, envConfig) ==
    [ApplyProcessEnv(config, envConfig) EXCEPT !.port = config.port]

\* An environment in which nothing is set.
NoEnv ==
    [PORT |-> Unset, GITHUB_TOKEN |-> Unset, MODEL_NAME |-> Unset,
     DEBUG |-> Unset, MIN_CHUNK_SIZE |-> Unset, MAX_CHUNK_SIZE |-> Unset,
     CHUNKS_RETURNED |-> Unset]

\* An env file: missing, there but not readable as an env file (readFileSync
\* or dotenv.parse throws), or parsed to its variables.
MissingFile == [exists |-> FALSE, parses |-> FALSE, env |-> NoEnv]
UnreadableFile == [exists |-> TRUE, parses |-> FALSE, env |-> NoEnv]
ParsedFile(envConfig) == [exists |-> TRUE, parses |-> TRUE, env |-> envConfig]

\* The loop without its break: every file that parses is applied.
RECURSIVE LoadEveryProjectEnv(_, _)
LoadEveryProjectEnv(envFiles, config) ==
    IF envFiles = << >> THEN config
    ELSE LoadEveryProjectEnv(
            Tail(envFiles),
            IF Head(envFiles).exists /\ Head(envFiles).parses
              THEN ApplyEnvConfig(config, Head(envFiles).env)
              ELSE config)

\* tryLoadProjectEnv over the files at envPaths: the first file that exists
\* and parses is applied and ends the loop; a file that throws is skipped.
RECURSIVE tryLoadProjectEnv(_, _)
tryLoadProjectEnv(envFiles, config) ==
    IF envFiles = << >> THEN config
    ELSE IF Head(envFiles).exists /\ Head(envFiles).parses
      THEN ApplyEnvConfig(config, Head(envFiles).env)
    ELSE tryLoadProjectEnv(Tail(envFiles), config)

\* getConfig(projectPath), with process.env and the files at
\* <projectPath>/.env and <projectPath>/.env.dependency-context.
getConfig(projectPath, processEnv, envFiles) ==
    LET config == ApplyProcessEnv(defaultConfig, processEnv)
    IN  IF Truthy(projectPath) THEN tryLoadProjectEnv(envFiles, config)
        ELSE config

\* The ways a variable is given in an environment: not at all, as the empty
\* string, as a proper value, as a text that is no value of its kind, and as
\* a value with other characters around it.
Kinds == <<"unset", "empty", "value", "junk", "loose">>

\* The environment of a source ("p" for process.env, "e" for .env, "d" for
\* .env.dependency-context) in which the k-th variable is given in the
\* (k + r)-th way; values of different sources and variables differ.
KindAt(k, r) == Kinds[((k + r) % Len(Kinds)) + 1]

SourceNumber(source, k) ==
    (IF source = "p" THEN 10 ELSE IF source = "e" THEN 20 ELSE 30) + k

TextValue(source, k, r) ==
    LET kind == KindAt(k, r)
    IN  IF kind = "unset" THEN Unset
        ELSE IF kind = "empty" THEN Value(<< >>)
        ELSE IF kind = "value" THEN Value(<<source, DigitChars[k]>>)
        ELSE IF kind = "junk" THEN Value(<<SP>>)
        ELSE Value(<<SP, source, DigitChars[k], SP>>)

FlagValue(source, k, r) ==
    LET kind == KindAt(k, r)
    IN  IF kind = "unset" THEN Unset
        ELSE IF kind = "empty" THEN Value(<< >>)
        ELSE IF kind = "value" THEN Value(TrueText)
        ELSE IF kind = "junk" THEN Value(<<"1">>)
        ELSE Value(<<SP>> \o TrueText)

NumberValue(source, k, r) ==
    LET kind == KindAt(k, r)
    IN  IF kind = "unset" THEN Unset
        ELSE IF kind = "empty" THEN Value(<< >>)
        ELSE IF kind = "value" THEN Value(NumberText(SourceNumber(source, k)))
        ELSE IF kind = "junk" THEN Value(<<"x">>)
        ELSE Value(<<SP>> \o NumberText(SourceNumber(source, k)) \o <<"x">>)

EnvOf(source, r) ==
    [PORT |-> NumberValue(source, 1, r),
     GITHUB_TOKEN |-> TextValue(source, 2, r),
     MODEL_NAME |-> TextValue(source, 3, r),
     DEBUG |-> FlagValue(source, 4, r),
     MIN_CHUNK_SIZE |-> NumberValue(source, 5, r),
     MAX_CHUNK_SIZE |-> NumberValue(source, 6, r),
     CHUNKS_RETURNED |-> NumberValue(source, 7, r)]

EnvsOf(source) == {NoEnv} \cup {EnvOf(source, r) : r \in 1..Len(Kinds)}

FilesOf(source) ==
    {MissingFile, UnreadableFile} \cup {ParsedFile(e) : e \in EnvsOf(source)}

\* The calls getConfig(projectPath): without a path, with the empty path and
\* with the path of a project.
ConfigCalls ==
    {[fn |-> "getConfig", projectPath |-> path, processEnv |-> env,
      envFiles |-> <<dotEnv, dotEnvDc>>] :
        path \in {NoContext, Context(<< >>), Context(<<"/", "p">>)},
        env \in EnvsOf("p"),
        dotEnv \in FilesOf("e"),
        dotEnvDc \in FilesOf("d")}

InitConfig ==
    /\ AtRest
    /\ call \in ConfigCalls
    /\ result = NoResult

\* getConfig returns the config.
ConfigReturns ==
    /\ call.fn = "getConfig"
    /\ ~result.returned
    /\ result' = [returned |-> TRUE,
                  config |-> getConfig(call.projectPath, call.processEnv,
                                       call.envFiles)]
    /\ UNCHANGED <<file, cache, pipelineCalls, idx, srch, expected, overlap,
                   started, run, call, written>>

NextConfig == ConfigReturns

\* One call of getConfig, for every environment and pair of env files.
SpecConfig == InitConfig /\ [][NextConfig]_vars

Configured == call.fn = "getConfig" /\ result.returned

\* The variables of the project's env file: those of the first of .env and
\* .env.dependency-context that exists and parses, none without such a file
\* or without a project path.
ProjectEnv ==
    LET dotEnv == call.envFiles[1]
        dotEnvDc == call.envFiles[2]
    IN  IF ~Truthy(call.projectPath) THEN NoEnv
        ELSE IF dotEnv.exists /\ dotEnv.parses THEN dotEnv.env
        ELSE IF dotEnvDc.exists /\ dotEnvDc.parses THEN dotEnvDc.env
        ELSE NoEnv

\* The value of the env file when it gives one, else that of the process
\* environment when it gives one, else the default.
PickText(fromFile, fromProcess, default) ==
    IF IsSet(fromFile) THEN fromFile
    ELSE IF IsSet(fromProcess) THEN fromProcess
    ELSE default

PickNumber(fromFile, fromProcess, default) ==
    IF IsSet(fromFile) THEN ParseInt(fromFile.text)
    ELSE IF IsSet(fromProcess) THEN ParseInt(fromProcess.text)
    ELSE Number(default)

\* C20: for GITHUB_TOKEN, MODEL_NAME, MIN_CHUNK_SIZE, MAX_CHUNK_SIZE and
\* CHUNKS_RETURNED the config holds the value of the project's env file when
\* that file gives the variable a value, otherwise the value of the process
\* environment when it gives one, otherwise the default; the project's env
\* file is the first of .env and .env.dependency-context that exists and
\* parses, and no other file is consulted.  A variable given as the empty
\* string counts as not given, and a numeric variable is read by parseInt.
C20_FileThenProcessThenDefault ==
    Configured =>
        LET f == ProjectEnv
            p == call.processEnv
            c == result.config
        IN  /\ c.githubToken = PickText(f.GITHUB_TOKEN, p.GITHUB_TOKEN, Unset)
            /\ c.embeddingModel =
                  PickText(f.MODEL_NAME, p.MODEL_NAME, Value(DefaultModelText))
            /\ c.minChunkSize =
                  PickNumber(f.MIN_CHUNK_SIZE, p.MIN_CHUNK_SIZE, DefaultMinSize)
            /\ c.maxChunkSize =
                  PickNumber(f.MAX_CHUNK_SIZE, p.MAX_CHUNK_SIZE, DefaultMaxSize)
            /\ c.chunksReturned =
                  PickNumber(f.CHUNKS_RETURNED, p.CHUNKS_RETURNED,
                             DefaultChunksReturned)

\* getConfig returned for a project whose .env cannot be read and whose
\* .env.dependency-context parses: one variable comes from that file although
\* the process environment sets it too, one from the process environment
\* because the file does not give it, and one is the default.
C20_Witness ==
    /\ Configured
    /\ Truthy(call.projectPath)
    /\ call.envFiles[1] = UnreadableFile
    /\ call.envFiles[2].parses
    /\ LET f == call.envFiles[2].env
           p == call.processEnv
           c == result.config
       IN  /\ IsSet(f.MAX_CHUNK_SIZE) /\ IsSet(p.MAX_CHUNK_SIZE)
           /\ c.maxChunkSize = ParseInt(f.MAX_CHUNK_SIZE.text)
           /\ c.maxChunkSize # ParseInt(p.MAX_CHUNK_SIZE.text)
           /\ ~IsSet(f.GITHUB_TOKEN) /\ IsSet(p.GITHUB_TOKEN)
           /\ c.githubToken = p.GITHUB_TOKEN
           /\ ~IsSet(f.MODEL_NAME) /\ ~IsSet(p.MODEL_NAME)
           /\ c.embeddingModel = Value(DefaultModelText)

\* --------------------------------------------------------------- parsers

\* A manifest file of the project: absent, there but failing to be read or
\* parsed (readJson or readFile throws), or read to its content.
AbsentManifest(empty) == [state |-> "absent", content |-> empty]
BrokenManifest(empty) == [state |-> "broken", content |-> empty]
ReadManifest(content) == [state |-> "read", content |-> content]

\* A JSON object of names and versions as Object.entries lists it; the JSON
\* value null has no entries and is falsy.
NoObject == [object |-> FALSE, entries |-> << >>]
ObjectOf(entries) == [object |-> TRUE, entries |-> entries]

\* The content of a package.json: its dependencies and devDependencies; the
\* JSON value null in place of the whole document.
NullPackage == [object |-> FALSE, dependencies |-> NoObject,
                devDependencies |-> NoObject]
PackageOf(deps, devDeps) == [object |-> TRUE, dependencies |-> deps,
                             devDependencies |-> devDeps]

\* String(version).replace(/[^0-9.]/g, ""): the digits and dots of a version.
RECURSIVE CleanVersion(_)
CleanVersion(version) ==
    IF version = << >> THEN << >>
    ELSE IF IsDigit(Head(version)) \/ Head(version) = "."
      THEN << Head(version) >> \o CleanVersion(Tail(version))
    ELSE CleanVersion(Tail(version))

\* Object.entries(...).forEach: one npm dependency for each entry, in order.
RECURSIVE NpmDependencies(_)
NpmDependencies(entries) ==
    IF entries = << >> THEN << >>
    ELSE << [name |-> Head(entries).name,
             version |-> CleanVersion(Head(entries).version),
             type |-> "npm"] >> \o NpmDependencies(Tail(entries))

\* parseDependencyContextJson: every entry of the document; nothing when the
\* document is null or cannot be read.
parseDependencyContextJson(manifest) ==
    IF manifest.state # "read" THEN << >>
    ELSE IF ~manifest.content.object THEN << >>
    ELSE NpmDependencies(manifest.content.entries)

\* parsePackageJson: the dependencies, then the devDependencies; nothing when
\* the document cannot be read or is null (content.dependencies throws).
parsePackageJson(manifest) ==
    IF manifest.state # "read" THEN << >>
    ELSE IF ~manifest.content.object THEN << >>
    ELSE (IF manifest.content.dependencies.object
            THEN NpmDependencies(manifest.content.dependencies.entries)
            ELSE << >>)
         \o (IF manifest.content.devDependencies.object
               THEN NpmDependencies(manifest.content.devDependencies.entries)
               ELSE << >>)

\* content.split("\n").
RECURSIVE SplitLines(_)
SplitLines(text) ==
    LET e == LineEnd(text, 1)
    IN  IF e > Len(text) THEN << text >>
        ELSE << SubSeq(text, 1, e - 1) >>
             \o SplitLines(SubSeq(text, e + 1, Len(text)))

\* [\w.-]: the letters of the model's names, the digits, '_', '.' and '-'.
IsNameChar(c) == IsDigit(c) \/ c \in {"e", "x", "r", "_", ".", "-"}

\* Length of the run of [\w.-] characters that starts at position p.
RECURSIVE NameRun(_, _)
NameRun(t, p) ==
    IF p <= Len(t) /\ IsNameChar(t[p]) THEN 1 + NameRun(t, p + 1) ELSE 0

\* Length of the run of '=' characters that starts at position p.
RECURSIVE EqualsRun(_, _)
EqualsRun(t, p) ==
    IF p <= Len(t) /\ t[p] = "=" THEN 1 + EqualsRun(t, p + 1) ELSE 0

\* One line of requirements.txt: nothing for a blank line or a comment,
\* name and version for /^([\w.-]+)[=<>~!]=+([\w.-]+)/, the name with
\* version 'latest' for /^([\w.-]+)/, nothing otherwise.
RequirementOf(line) ==
    LET t == Trim(line)
        n == NameRun(t, 1)
        operator == n + 1 <= Len(t) /\ t[n + 1] \in {"=", "<", ">", "~", "!"}
        e == EqualsRun(t, n + 2)
        v == NameRun(t, n + 2 + e)
    IN  IF t = << >> \/ Head(t) = HASH THEN << >>
        ELSE IF n >= 1 /\ operator /\ e >= 1 /\ v >= 1
          THEN << [name |-> SubSeq(t, 1, n),
                   version |-> SubSeq(t, n + 2 + e, n + 1 + e + v),
                   type |-> "python"] >>
        ELSE IF n >= 1
          THEN << [name |-> SubSeq(t, 1, n),
                   version |-> <<"l", "a", "t", "e", "s", "t">>,
                   type |-> "python"] >>
        ELSE << >>

RECURSIVE RequirementsOf(_)
RequirementsOf(lines) ==
    IF lines = << >> THEN << >>
    ELSE RequirementOf(Head(lines)) \o RequirementsOf(Tail(lines))

\* parseRequirementsTxt: the requirements of the lines; nothing when the
\* file cannot be read.
parseRequirementsTxt(manifest) ==
    IF manifest.state # "read" THEN << >>
    ELSE RequirementsOf(SplitLines(manifest.content))

\* fs.pathExists on a manifest.
ManifestExists(manifest) == manifest.state # "absent"

\* package.json consulted before dependency-context.json.
parseDependenciesPackageFirst(custom, package, requirements) ==
    IF ManifestExists(package)
      THEN [dependencies |-> parsePackageJson(package),
            read |-> <<"package.json">>]
    ELSE IF ManifestExists(custom)
      THEN [dependencies |-> parseDependencyContextJson(custom),
            read |-> <<"dependency-context.json">>]
    ELSE IF ManifestExists(requirements)
      THEN [dependencies |-> parseRequirementsTxt(requirements),
            read |-> <<"requirements.txt">>]
    ELSE [dependencies |-> << >>, read |-> << >>]

\* parseDependencies(projectPath) over the three manifests of the project:
\* the dependencies it returns and the manifests it read to get them.
parseDependencies(custom, package, requirements) ==
    IF ManifestExists(custom)
      THEN [dependencies |-> parseDependencyContextJson(custom),
            read |-> <<"dependency-context.json">>]
    ELSE IF ManifestExists(package)
      THEN [dependencies |-> parsePackageJson(package),
            read |-> <<"package.json">>]
    ELSE IF ManifestExists(requirements)
      THEN [dependencies |-> parseRequirementsTxt(requirements),
            read |-> <<"requirements.txt">>]
    ELSE [dependencies |-> << >>, read |-> << >>]

\* The manifests of the model's projects.
EntryEx == [name |-> <<"e", "x">>, version |-> <<"^", "4", ".", "1">>]
EntryRe == [name |-> <<"r", "e">>, version |-> <<"2">>]
EntryX == [name |-> <<"x">>, version |-> <<"~", "1", ".", "0", "-", "r">>]

CustomManifests ==
    {AbsentManifest(NoObject), BrokenManifest(NoObject),
     ReadManifest(NoObject), ReadManifest(ObjectOf(<< >>)),
     ReadManifest(ObjectOf(<<EntryEx, EntryX>>))}

PackageManifests ==
    {AbsentManifest(NullPackage), BrokenManifest(NullPackage),
     ReadManifest(NullPackage),
     ReadManifest(PackageOf(ObjectOf(<<EntryRe>>), NoObject)),
     ReadManifest(PackageOf(ObjectOf(<<EntryRe>>), ObjectOf(<<EntryX>>))),
     ReadManifest(PackageOf(NoObject, ObjectOf(<<EntryEx>>)))}

RequirementsManifests ==
    {AbsentManifest(<< >>), BrokenManifest(<< >>), ReadManifest(<< >>),
     ReadManifest(<<"e", "x", "=", "=", "1", ".", "0", NL, HASH, "r", NL,
                    SP, "r", "e", SP>>),
     ReadManifest(<<"r", "e", ">", "=", "2", NL, NL, "x", "=", "1", NL,
                    "=", "x">>)}

ParserCalls ==
    {[fn |-> "parseDependencies", custom |-> c, package |-> p,
      requirements |-> r] :
        c \in CustomManifests, p \in PackageManifests,
        r \in RequirementsManifests}

InitParser ==
    /\ AtRest
    /\ call \in ParserCalls
    /\ result = NoResult

\* parseDependencies returns its list.
ParseReturns ==
    /\ call.fn = "parseDependencies"
    /\ ~result.returned
    /\ result' = [returned |-> TRUE,
                  parsed |-> parseDependencies(call.custom, call.package,
                                               call.requirements)]
    /\ UNCHANGED <<file, cache, pipelineCalls, idx, srch, expected, overlap,
                   started, run, call, written>>

NextParser == ParseReturns

\* One call of parseDependencies, for every state of the three manifests.
SpecParser == InitParser /\ [][NextParser]_vars

Parsed == call.fn = "parseDependencies" /\ result.returned

LoadedBy(l) == SubSeq(l.vectorStore, 1, Len(l.vectorStore) - Len(l.produced))

\* Two index operations have both finished, each having loaded the same
\* entries and pushed entries of its own: neither loaded what the other wrote.
BothLoadedFirst(i, j) ==
    /\ i # j
    /\ idx[i].pc = "done" /\ idx[j].pc = "done"
    /\ idx[i].produced # << >> /\ idx[j].produced # << >>
    /\ LoadedBy(idx[i]) = LoadedBy(idx[j])

\* C22: when two index operations both load the store before either of them
\* writes it, the store they leave holds the loaded entries followed by the
\* new entries of the operation whose write settled last, and nothing of the
\* other operation.
C22_LastWriterWins ==
    \A i, j \in IndexOps :
        BothLoadedFirst(i, j) =>
            /\ file.state = "complete"
            /\ ReadJson(file).entries = written
            /\ \E last \in {i, j} :
                  written = LoadedBy(idx[last]) \o idx[last].produced

\* ------------------------------------------------- merging small sections

\* The chunks the section loop holds after the first k sections of a text.
ChunksAfter(content, k, minSize, maxSize) ==
    SectionLoop(SubSeq(HeaderSplit(content), 1, k), << >>, minSize, maxSize)

\* The k-th section of the text is undersized and not blank, and a chunk
\* has been emitted before it: the section loop considers merging it.
MergeConsidered(content, k, minSize, maxSize) ==
    LET split == HeaderSplit(content)[k]
    IN  /\ Len(Trim(split)) # 0
        /\ Len(split) <= maxSize
        /\ Len(split) < minSize
        /\ ChunksAfter(content, k - 1, minSize, maxSize) # << >>

\* The preceding chunk, the blank-line separator and the trimmed section.
MergedChunk(lastChunk, split) == lastChunk \o <<NL, NL>> \o Trim(split)

\* C23: when the chunker merges an undersized section into the chunk emitted
\* just before it, the merged chunk (preceding chunk, blank-line separator,
\* trimmed section) is at most max_size long; when the merged chunk would be
\* longer than max_size the section is emitted as a chunk of its own.
C23_MergedChunkWithinMaxSize ==
    Chunked =>
        \A k \in 1..Len(HeaderSplit(call.content)) :
            MergeConsidered(call.content, k, call.minSize, call.maxSize) =>
                LET before == ChunksAfter(call.content, k - 1, call.minSize,
                                          call.maxSize)
                    after == ChunksAfter(call.content, k, call.minSize,
                                         call.maxSize)
                    split == HeaderSplit(call.content)[k]
                    merged == MergedChunk(before[Len(before)], split)
                IN  IF Len(merged) <= call.maxSize
                      THEN after = [before EXCEPT ![Len(before)] = merged]
                      ELSE after = Append(before, Trim(split))

\* The text occurs in one of the chunks, as the whole chunk or as a part of a
\* merged one.
AppearsIn(text, chunks) == \E c \in 1..Len(chunks) : Includes(chunks[c], text)

\* C24: every section between headers whose trimmed text is not empty and is
\* at most max_size long appears, trimmed, in the chunks returned, as a chunk
\* of its own or merged into the chunk before it, whatever its length is
\* relative to min_size.
C24_SmallSectionNeverDropped ==
    Chunked =>
        \A k \in 1..Len(HeaderSplit(call.content)) :
            LET section == Trim(HeaderSplit(call.content)[k])
            IN  (section # << >> /\ Len(section) <= call.maxSize)
                    => AppearsIn(section, result.chunks)

\* ------------------------------------------------------- ties in a search

\* The results of the stored entries that pass the filter of search l, in
\* the order of the store.
RECURSIVE PassingResultsFrom(_, _)
PassingResultsFrom(l, i) ==
    IF i > Len(l.loaded) THEN << >>
    ELSE (IF EntryPasses(l.loaded[i], l.request.repository_context)
            THEN << ResultOf(l.loaded[i], l) >> ELSE << >>)
         \o PassingResultsFrom(l, i + 1)

\* The results of a sequence that have the given score, in their order.
RECURSIVE WithScore(_, _)
WithScore(results, score) ==
    IF results = << >> THEN << >>
    ELSE (IF Head(results).similarity_score = score
            THEN << Head(results) >> ELSE << >>)
         \o WithScore(Tail(results), score)

AllSucceeded ==
    /\ Completed
    /\ Len(run.dependencies) >= 1
    /\ run.successCount = Len(run.dependencies)
    /\ run.errorCount = 0
    /\ run.rejected = 0

\* C26: in an index run with N >= 1 dependencies that all succeed,
\* reportProgress is called exactly 3N + 4 times; the values reported never
\* decrease and never exceed 100, the first is 0 and the last is 100.
C26_ProgressReports ==
    AllSucceeded =>
        LET p == run.progress
        IN  /\ run.reported = 3 * Len(run.dependencies) + 4
            /\ Len(p) = run.reported
            /\ \A i \in 1..(Len(p) - 1) : p[i] <= p[i + 1]
            /\ \A i \in 1..Len(p) : p[i] <= 100
            /\ p[1] = 0
            /\ p[Len(p)] = 100

\* A run over two dependencies indexed both and reported ten values, among
\* them 32 after the first repository was found and 90 after the last
\* dependency was indexed.
C26_Witness ==
    /\ AllSucceeded
    /\ Len(run.dependencies) = 2
    /\ Len(run.progress) = 10
    /\ run.progress[4] = 32
    /\ run.progress[9] = 90

\* ---------------------------------------------------- the best match

\* Embeddings found in a store: of the query's model (two components, among
\* them parallel ones), of a model with fewer components, and all zeros.
StoredVectors == {<<1, 1>>, <<2, 2>>, <<1, 0>>, <<-1, 1>>, <<0, 0>>, <<1>>}

\* Query embeddings: not zero.
QueryVectors == {<<1, 1>>, <<1, 0>>}

\* The store whose k-th record has the k-th of the embeddings and the chunk
\* text k.
StoreOf(embeddings) ==
    [k \in 1..Len(embeddings) |->
        MakeEntry(<< DigitChars[k + 1] >>, embeddings[k], RepoEx, DocA, DepEx)]

RankCalls ==
    {[fn |-> "rank", queryEmbedding |-> q, entries |-> StoreOf(e)] :
        q \in QueryVectors,
        e \in [1..1 -> StoredVectors] \cup [1..2 -> StoredVectors]
                \cup [1..3 -> StoredVectors]}

InitRank ==
    /\ AtRest
    /\ call \in RankCalls
    /\ result = NoResult

\* searchVectorStore, from the store it has read and the query embedding it
\* has computed, returns its results; no filter, no config.
RankReturns ==
    /\ call.fn = "rank"
    /\ ~result.returned
    /\ result' = [returned |-> TRUE,
                  results |-> RankEntries(call.entries, call.queryEmbedding,
                                          NoContext, NoConfig)]
    /\ UNCHANGED <<file, cache, pipelineCalls, idx, srch, expected, overlap,
                   started, run, call, written>>

NextRank == RankReturns

\* The ranking of one search, for every small store and query embedding.
SpecRank == InitRank /\ [][NextRank]_vars

RankReturned == call.fn = "rank" /\ result.returned

\* The score 1.
One == [num |-> 1, den |-> 1]

\* C27: a stored record whose embedding equals the non-zero query embedding
\* has the similarity_score 1, no record has a higher score, and with no
\* filter the record is returned ahead of every record with a different
\* score: every result before it has its score.
C27_ExactMatchRankedFirst ==
    RankReturned =>
        \A i \in 1..Len(call.entries) :
            call.entries[i].embedding = call.queryEmbedding =>
                LET match == ResultOf(call.entries[i], call)
                    res == result.results
                IN  /\ match.similarity_score = One
                    /\ \A j \in 1..Len(call.entries) :
                          ~ScoreLess(match.similarity_score,
                                     ResultOf(call.entries[j], call).similarity_score)
                    /\ \E k \in 1..Len(res) :
                          /\ res[k] = match
                          /\ \A m \in 1..(k - 1) :
                                res[m].similarity_score = match.similarity_score

\* ------------------------------------------------- a failed index operation

\* C28: when an embedding call of an index operation fails, the operation
\* ends in failure (the error goes to its caller) and writes nothing: the
\* failing step leaves the store file as it is, and while no other index
\* operation has run beside it the file is the one the operation found, with
\* none of the entries it had pushed.
C28_FailedIndexWritesNothing ==
    [][\A i \in IndexOps :
          /\ (idx[i].pc \in {"pipeline", "inference"} /\ idx'[i].pc = "failed")
                => (idx'[i].failure = "embed" /\ file' = file)
          /\ (idx'[i].pc = "failed" /\ idx'[i].failure = "embed" /\ ~overlap')
                => file' = idx'[i].before]_vars

\* An index operation over a store with entries failed on the embedding of
\* its second chunk: the entry of the first chunk is in no file.
C28_Witness ==
    \E i \in IndexOps :
        /\ idx[i].pc = "failed"
        /\ idx[i].failure = "embed"
        /\ ~overlap
        /\ idx[i].produced # << >>
        /\ idx[i].before.state = "complete"
        /\ idx[i].before.text # << >>
        /\ file = idx[i].before
        /\ ReadJson(file).entries # idx[i].vectorStore

\* ------------------------------------------------------- a failed model load

\* The step in which the model load of call l fails: generateEmbedding
\* rejects, and the call that made it ends with that error.
LoadFails(l, after) ==
    /\ l.pc = "pipeline"
    /\ after.pc \in {"failed", "done"}

\* The step in which call l starts generateEmbedding.
EmbedStarts(l, after) ==
    /\ l.pc \notin {"pipeline", "inference"}
    /\ after.pc \in {"pipeline", "inference"}

\* C29: a failed load of the embedding model puts nothing into the cache (an
\* empty cache stays empty) and fails the embed call that made it; every
\* embed call that starts while the cache is empty attempts the load again;
\* the cache only ever takes the instance of a load that succeeded.
C29_FailedLoadNotCached ==
    [][/\ \A i \in IndexOps :
            /\ LoadFails(idx[i], idx'[i])
                  => (cache' = cache /\ idx'[i].failure = "embed"
                      /\ idx'[i].pc = "failed")
            /\ (EmbedStarts(idx[i], idx'[i]) /\ cache = NoModel)
                  => (idx'[i].pc = "pipeline"
                      /\ pipelineCalls' = pipelineCalls + 1)
       /\ \A s \in SearchOps :
            /\ LoadFails(srch[s], srch'[s])
                  => (cache' = cache /\ srch'[s].failure = "embed")
            /\ (EmbedStarts(srch[s], srch'[s]) /\ cache = NoModel)
                  => (srch'[s].pc = "pipeline"
                      /\ pipelineCalls' = pipelineCalls + 1)
       /\ cache' # cache =>
            \/ \E i \in IndexOps :
                  /\ idx[i].pc = "pipeline" /\ idx'[i].pc = "inference"
                  /\ cache' = LoadedInstance(idx[i])
            \/ \E s \in SearchOps :
                  /\ srch[s].pc = "pipeline" /\ srch'[s].pc = "inference"
                  /\ cache' = LoadedInstance(srch[s])]_vars

\* The first load of the process failed in an index operation and cached
\* nothing; the second load, made by a search, succeeded and is the one
\* cached.
C29_Witness ==
    \E i \in IndexOps, s \in SearchOps :
        /\ idx[i].pc = "failed"
        /\ idx[i].failure = "embed"
        /\ idx[i].loadId = 1
        /\ idx[i].used = NoModel
        /\ srch[s].loadId = 2
        /\ pipelineCalls = 2
        /\ cache = LoadedInstance(srch[s])
        /\ srch[s].used = cache


\* ---------------------------------------------------------------------------
\* env_vars of a request and process.env
\* ---------------------------------------------------------------------------

\* The requests one process handles.
MaxRequests == 3

\* The env_vars parameter: left out, or a record of strings.  A variable the
\* record has no key for is Unset in vars; a key with the empty string is set.
NoVars == [given |-> FALSE, vars |-> NoEnv]
Vars(env) == [given |-> TRUE, vars |-> env]

\* if (env_vars) { for (const [key, value] of Object.entries(env_vars))
\*   process.env[key] = value }
SetEnvVars(env, env_vars) ==
    IF env_vars.given
      THEN [key \in DOMAIN env |->
                IF env_vars.vars[key].set THEN env_vars.vars[key] ELSE env[key]]
      ELSE env

\* process.env put back, when the handler is done, as the handler found it.
EnvRestoredAfterRequest(processEnv, env) == processEnv

\* process.env when a handler that ran its env_vars loop is done: it is left
\* as the loop made it, no statement of the handler puts a value back.
EnvAfterRequest(processEnv, env) == env

\* A handled request: what was asked, whether the handler came as far as
\* getConfig, and the config it computed there.
Handled(tool, env_vars, configured, config) ==
    [tool |-> tool, env_vars |-> env_vars, configured |-> configured,
     config |-> config]

NotComputed == [computed |-> FALSE]

EnvVarsGiven ==
    {NoVars, Vars(NoEnv), Vars(EnvOf("v", 4)), Vars(EnvOf("v", 5))}

\* A process: process.env as it is once config.ts has run dotenv.config(),
\* and the env files of the project its requests name.
ServeCalls ==
    {[fn |-> "serve", projectPath |-> Context(<<"/", "p">>),
      startEnv |-> env, envFiles |-> <<dotEnv, MissingFile>>] :
        env \in {NoEnv, EnvOf("p", 5)},
        dotEnv \in {MissingFile, ParsedFile(EnvOf("e", 4))}}

InitServe ==
    /\ AtRest
    /\ call \in ServeCalls
    /\ result = [returned |-> FALSE, processEnv |-> call.startEnv,
                 handled |-> << >>]

\* searchDependencyDocs as far as getConfig: the env_vars are written to
\* process.env and the config is computed, with no await in between.
SearchConfigures(env_vars) ==
    /\ call.fn = "serve"
    /\ Len(result.handled) < MaxRequests
    /\ LET env == SetEnvVars(result.processEnv, env_vars)
           config == getConfig(call.projectPath, env, call.envFiles)
       IN  result' =
             [returned |-> TRUE,
              processEnv |-> EnvAfterRequest(result.processEnv, env),
              handled |-> Append(result.handled,
                                 Handled("search", env_vars, TRUE, config))]
    /\ UNCHANGED <<file, cache, pipelineCalls, idx, srch, expected, overlap,
                   started, run, call, written>>

\* analyzeAndIndexDependencies as far as getConfig: a project path that does
\* not exist returns the failure, a first reportProgress that rejects goes to
\* the catch block, and otherwise the env_vars are written to process.env and
\* the config is computed.
AnalyzeConfigures(env_vars, pathValid, reportOk) ==
    /\ call.fn = "serve"
    /\ Len(result.handled) < MaxRequests
    /\ IF pathValid /\ reportOk
         THEN LET env == SetEnvVars(result.processEnv, env_vars)
                  config == getConfig(call.projectPath, env, call.envFiles)
              IN  result' =
                    [returned |-> TRUE,
                     processEnv |-> EnvAfterRequest(result.processEnv, env),
                     handled |-> Append(result.handled,
                                        Handled("index", env_vars, TRUE,
                                                config))]
         ELSE result' =
                [result EXCEPT
                    !.returned = TRUE,
                    !.handled = Append(@, Handled("index", env_vars, FALSE,
                                                  NotComputed))]
    /\ UNCHANGED <<file, cache, pipelineCalls, idx, srch, expected, overlap,
                   started, run, call, written>>

NextServe ==
    \/ \E env_vars \in EnvVarsGiven : SearchConfigures(env_vars)
    \/ \E env_vars \in EnvVarsGiven, pathValid \in BOOLEAN :
            AnalyzeConfigures(env_vars, pathValid, pathValid)
    \/ \E env_vars \in EnvVarsGiven : AnalyzeConfigures(env_vars, TRUE, FALSE)

\* One process handling index and search requests one after another.
SpecServe == InitServe /\ [][NextServe]_vars

Serving == call.fn = "serve"

\* The j-th request handled by the process.
RequestAt(j) == result.handled[j]

\* The i-th request supplied the variable.
SuppliedAt(i, key) ==
    RequestAt(i).env_vars.given /\ RequestAt(i).env_vars.vars[key].set

\* The i-th request supplied the variable and its handler came as far as the
\* env_vars loop.
WrittenAt(i, key) == SuppliedAt(i, key) /\ RequestAt(i).configured

\* The value of the variable the last of the requests in `writers` gave it,
\* and the value at the start of the process when there is none.
LastGiven(writers, key) ==
    IF writers = {} THEN call.startEnv[key]
    ELSE LET i == CHOOSE w \in writers : \A v \in writers : v <= w
         IN  RequestAt(i).env_vars.vars[key]

\* process.env at the j-th request when every variable holds what the last
\* request up to the j-th that wrote it gave it.
EnvOfWriters(j) ==
    [key \in DOMAIN NoEnv |->
        LastGiven({i \in 1..j : WrittenAt(i, key)}, key)]

\* The same when every request that supplies a variable counts as writing it.
EnvOfSuppliers(j) ==
    [key \in DOMAIN NoEnv |->
        LastGiven({i \in 1..j : SuppliedAt(i, key)}, key)]

\* C30 as amended: the env_vars of a search request, and of an index request
\* whose project path exists and whose first progress report succeeds, are
\* written into process.env and never put back: the config of every request,
\* with or without env_vars of its own, is the one getConfig computes from the
\* project's env files and an environment in which every variable holds what
\* the last such request gave it, or its value at the start of the process.
\* The env_vars of an index request that is turned away before they are read
\* leave no trace.
C30_EnvVarsOfConfiguredRequestsPersist ==
    Serving =>
        /\ \A j \in 1..Len(result.handled) :
                RequestAt(j).configured =>
                    RequestAt(j).config =
                        getConfig(call.projectPath, EnvOfWriters(j),
                                  call.envFiles)
        /\ result.processEnv = EnvOfWriters(Len(result.handled))

\* C30: the env_vars of every index or search request are written into
\* process.env and never put back: the config of every later request is the
\* one getConfig computes from an environment in which every variable holds
\* what the last request that supplied it gave it.
C30_EnvVarsPersist ==
    Serving =>
        /\ \A j \in 1..Len(result.handled) :
                RequestAt(j).configured =>
                    RequestAt(j).config =
                        getConfig(call.projectPath, EnvOfSuppliers(j),
                                  call.envFiles)
        /\ result.processEnv = EnvOfSuppliers(Len(result.handled))

\* The first and the third request are the same search without env_vars in
\* the same project, the second request supplied GITHUB_TOKEN: the third
\* config holds that token and the first does not, so the config is no
\* function of the request and the project's env files.
C30_Witness ==
    /\ Serving
    /\ Len(result.handled) = 3
    /\ RequestAt(1) # RequestAt(3)
    /\ RequestAt(1).tool = "search" /\ RequestAt(3).tool = "search"
    /\ RequestAt(1).env_vars = NoVars /\ RequestAt(3).env_vars = NoVars
    /\ RequestAt(2).tool = "index" /\ RequestAt(2).configured
    /\ IsSet(RequestAt(2).env_vars.vars.GITHUB_TOKEN)
    /\ RequestAt(1).config.githubToken = Unset
    /\ RequestAt(3).config.githubToken = RequestAt(2).env_vars.vars.GITHUB_TOKEN

====
